---- MODULE Spec2Model ----
(***************************************************************************)
(* Funnel reconstruction and drop-off classification of the MenoQueen quiz *)
(* dashboard (src/app.py) and of its daily chat report                     *)
(* (src/slack_report.py).                                                  *)
(*                                                                         *)
(* Percentages are kept as integers counting tenths of a percent: the code *)
(* rounds every percentage to one decimal, so 12.5% is the integer 125.    *)
(***************************************************************************)
EXTENDS Integers, Sequences, FiniteSets, TLC

VARIABLES
    profiles,       \* raw profile list as returned by the profile fetch
    df,             \* normalized record set (one row per profile)
    pc,             \* position of the report build
    step_rank,      \* the step_rank column compute_funnel adds to its copy
    funnel,         \* result of compute_funnel (sequence of step rows)
    steps_data,     \* _render_full_funnel_waterfall: one dict per step
    summary,        \* build_data_summary: header counts and funnel block
    hotspot,        \* _find_biggest_dropoff: (label, drop)
    answers,        \* the column df[col] handed to compute_answer_distribution
    dist,           \* result of compute_answer_distribution
    env,            \* environment variables of the process (what is configured)
    upstream,       \* the profile list the profile source holds
    shop,           \* the order list the shop holds
    events,         \* requests sent, messages shown and calls made, in order
    sources,        \* main: ga4_steps, ga4_error, shopify_orders, shopify_metrics
    page,           \* main: the page the sidebar selected
    windows,        \* render_ai_page: the values of the date inputs
    df_a,           \* render_ai_page: first filtered record set
    df_b,           \* render_ai_page: second filtered record set
    ai_summary,     \* render_ai_page: the summary handed to _run_analysis
    ai_insights,    \* st.session_state["ai_insights"]
    blocks,         \* send_daily_report: result of build_report_blocks
    delivery,       \* send_daily_report: how the run ended
    cache,          \* st.cache_data: the stored results of the fetch functions
    clock,          \* seconds since the server started
    builds,         \* script runs of the session so far
    totals,         \* build_report_blocks: a metric's yesterday and week totals
    trend           \* build_report_blocks: the metric's average and annotation

funnel_vars == <<profiles, df, step_rank, funnel, steps_data, summary, hotspot>>

dist_vars == <<answers, dist>>

ai_vars == <<windows, df_a, df_b, ai_summary, ai_insights>>

session_vars == <<cache, clock, builds>>

build_vars ==
    <<env, upstream, shop, events, sources, page, blocks, delivery, session_vars>>

trend_vars == <<totals, trend>>

\* the variables of the pure computations, which no build touches
aside_vars == <<dist_vars, trend_vars>>

\* the variables the funnel actions leave alone
outside_funnel == <<aside_vars, ai_vars, build_vars>>

\* the variables the distribution action leaves alone
outside_dist == <<funnel_vars, trend_vars, ai_vars, build_vars>>

vars == <<funnel_vars, pc, dist_vars, ai_vars, build_vars, trend_vars>>

(***************************************************************************)
(* Bounds of the model.                                                    *)
(***************************************************************************)
MaxProfiles == 2
MaxCount == 205
MaxLost == 21
ScenarioTotal == 100
ScenarioMarked == 40
MaxGroup == 3
MaxAnswers == 2
MaxDay == 2
MaxPages == 2
MaxWeek == 15
MaxBuilds == 2

(***************************************************************************)
(* Configuration (quiz metadata).                                          *)
(***************************************************************************)
QUIZ_STEPS_ORDER ==
    << "q1", "q2", "q3", "q4", "q5", "q6", "q7", "q8", "q9", "q10", "q12",
       "email-capture", "preparing-summary",
       "result-1", "result-2", "result-3",
       "product-recommendation" >>

QUIZ_Q_KEYS ==
    << "quiz_q1", "quiz_q2", "quiz_q3", "quiz_q4", "quiz_q5", "quiz_q6",
       "quiz_q7", "quiz_q8", "quiz_q9", "quiz_q10", "quiz_q12" >>

STEP_LABELS ==
    [ s \in { QUIZ_STEPS_ORDER[i] : i \in 1..Len(QUIZ_STEPS_ORDER) } |->
        CASE s = "q1" -> "Q1 - Primary Symptom"
          [] s = "q2" -> "Q2 - Frequency"
          [] s = "q3" -> "Q3 - Secondary Symptom"
          [] s = "q4" -> "Q4 - Intimate Health"
          [] s = "q5" -> "Q5 - Emotional"
          [] s = "q6" -> "Q6 - Impact"
          [] s = "q7" -> "Q7 - Diet"
          [] s = "q8" -> "Q8 - Supplements"
          [] s = "q9" -> "Q9 - Stage"
          [] s = "q10" -> "Q10 - Age"
          [] s = "q12" -> "Q12 - Relief"
          [] s = "email-capture" -> "Email Capture"
          [] s = "preparing-summary" -> "Calculating"
          [] s = "result-1" -> "Result 1"
          [] s = "result-2" -> "Result 2"
          [] s = "result-3" -> "Result 3"
          [] s = "product-recommendation" -> "Product Page" ]

(***************************************************************************)
(* Python values.                                                          *)
(***************************************************************************)
\* None as the value of a text field
NoneStr == "<None>"

\* None as the value of prev_count before the first row of a loop
NoPrev == -1

\* outcome of a division by zero (ZeroDivisionError, or NaN on numpy ints)
ZeroDivision == -999999

\* dict.get / Series.get: the value under key k, or the default
Get(d, k, default) == IF k \in DOMAIN d THEN d[k] ELSE default

EmptyDict == [ k \in {} |-> "" ]

\* round(n / d) with ties to the even neighbour, n >= 0, d > 0
RoundHalfEven(n, d) ==
    LET q == n \div d
        r2 == 2 * (n % d)
    IN  IF r2 > d \/ (r2 = d /\ q % 2 = 1) THEN q + 1 ELSE q

\* round(num / den * 100, 1), in tenths of a percent.  Python rounds the
\* binary float; on an exact decimal tie (x.x5) the float may sit on either
\* side of the tie, which never moves the result across a whole percent.
Percent1(num, den) ==
    IF den = 0 THEN ZeroDivision ELSE RoundHalfEven(num * 1000, den)

(***************************************************************************)
(* Record normalizer.                                                      *)
(***************************************************************************)
Columns ==
    { "email", "created", "quiz_completed", "quiz_completed_at",
      "current_step" }
        \cup { QUIZ_Q_KEYS[i] : i \in 1..Len(QUIZ_Q_KEYS) }

\* A creation timestamp as the profile source writes it: local calendar day
\* (counted from an arbitrary day 0), hour of that day, and UTC offset in
\* hours.  NoStamp is a text that is no timestamp (the "" default, None).
Stamp(day, hour, offset) ==
    [ valid |-> TRUE, day |-> day, hour |-> hour, offset |-> offset ]

NoStamp == [ valid |-> FALSE, day |-> 0, hour |-> 0, offset |-> 0 ]

\* NaT, the null timestamp
NaT == -1000000

\* pd.to_datetime(value, errors="coerce", utc=True): hours since day 0, UTC
to_datetime_utc(value) ==
    IF value.valid THEN value.day * 24 + value.hour - value.offset ELSE NaT

\* Timestamp.date() of a non-null UTC timestamp
utc_date(ts) == ts \div 24

\* one row of profiles_to_dataframe, created still as fetched
normalize_row(p) ==
    LET attrs == Get(p, "attributes", EmptyDict)
        props == Get(attrs, "properties", EmptyDict)
    IN  [ c \in Columns |->
            CASE c = "email" -> Get(attrs, "email", "")
              [] c = "created" -> Get(attrs, "created", NoStamp)
              [] c = "quiz_completed" -> Get(props, "Quiz Completed", FALSE)
              [] c = "quiz_completed_at" -> Get(props, "quiz_completed_at", "")
              [] c = "current_step" -> Get(props, "quiz_current_step", "")
              [] OTHER -> Get(props, c, "") ]

\* the rows, then the created column converted to UTC timestamps
profiles_to_dataframe(ps) ==
    [ i \in 1..Len(ps) |->
        [ normalize_row(ps[i]) EXCEPT
            !["created"] = to_datetime_utc(normalize_row(ps[i])["created"]) ] ]

\* None where the profile source sends null for a nested structure
NoneDict == [ k \in { "<None>" } |-> TRUE ]

\* p.get("attributes", {}) and attrs.get("properties", {}) hand back a null
\* that is present, and the next .get on it raises AttributeError
normalize_raises(p) ==
    LET attrs == Get(p, "attributes", EmptyDict)
    IN  \/ attrs = NoneDict
        \/ Get(attrs, "properties", EmptyDict) = NoneDict

\* DataFrame.empty
IsEmpty(d) == Len(d) = 0

(***************************************************************************)
(* Funnel rank inference and aggregation (compute_funnel).                 *)
(***************************************************************************)
\* step_index.get(s, default): position of s in QUIZ_STEPS_ORDER, from 0
step_index_get(s, default) ==
    IF \E i \in 1..Len(QUIZ_STEPS_ORDER) : QUIZ_STEPS_ORDER[i] = s
    THEN (CHOOSE i \in 1..Len(QUIZ_STEPS_ORDER) : QUIZ_STEPS_ORDER[i] = s) - 1
    ELSE default

\* s.startswith("q") over the step identifiers
StartsWithQ(s) ==
    s \in { "q1", "q2", "q3", "q4", "q5", "q6", "q7", "q8", "q9", "q10", "q12" }

q_steps == SelectSeq(QUIZ_STEPS_ORDER, StartsWithQ)

last_rank == Len(QUIZ_STEPS_ORDER) - 1

\* the loop over q_steps: each step identifier qs is looked up in the row
\* under the key qs itself
RECURSIVE scan_q_steps(_, _, _)
scan_q_steps(row, i, best) ==
    IF i > Len(q_steps) THEN best
    ELSE LET qs == q_steps[i]
             val == Get(row, qs, "")
             rank == step_index_get(qs, -1)
         IN  scan_q_steps(row, i + 1,
                 IF val \notin { "", NoneStr } /\ rank > best THEN rank ELSE best)

\* truthiness of a text value
Truthy(v) == v \notin { "", NoneStr }

\* the answer scan with the identity correction applied whatever the
\* answer-derived rank is
infer_rank_identity_always(row) ==
    LET best == scan_q_steps(row, 1, -1)
    IN  IF Truthy(Get(row, "email", ""))
        THEN LET ec_rank == step_index_get("email-capture", best)
             IN  IF ec_rank > best THEN ec_rank ELSE best
        ELSE best

infer_rank_without_marker(row) ==
    LET best == scan_q_steps(row, 1, -1)
    IN  IF Truthy(Get(row, "email", "")) /\ best >= 0
        THEN LET ec_rank == step_index_get("email-capture", best)
             IN  IF ec_rank > best THEN ec_rank ELSE best
        ELSE best

infer_rank_marker_ignored(row) == infer_rank_without_marker(row)

infer_rank(row) ==
    LET explicit == step_index_get(Get(row, "current_step", ""), -1)
    IN  IF explicit >= 0 THEN explicit ELSE infer_rank_without_marker(row)

\* step_rank of one row: df.apply(infer_rank), then the completion override
final_rank_no_override(row) == infer_rank(row)

final_rank(row) ==
    IF row["quiz_completed"] = TRUE THEN last_rank ELSE infer_rank(row)

\* int((df["step_rank"] >= rank).sum())
reached_exact(ranks, rank) ==
    Cardinality({ i \in 1..Len(ranks) : ranks[i] = rank })

reached(ranks, rank) ==
    Cardinality({ i \in 1..Len(ranks) : ranks[i] >= rank })

funnel_rows(ranks) ==
    LET total == Len(ranks)
    IN  [ k \in 1..Len(QUIZ_STEPS_ORDER) |->
            LET step_id == QUIZ_STEPS_ORDER[k]
                n == reached(ranks, step_index_get(step_id, -1))
            IN  [ step |-> step_id,
                  label |-> Get(STEP_LABELS, step_id, step_id),
                  count |-> n,
                  pct |-> IF total # 0 THEN Percent1(n, total) ELSE 0 ] ]

compute_funnel_no_empty_guard(d) ==
    LET ranks == [ i \in 1..Len(d) |-> final_rank(d[i]) ]
    IN  [ step_rank |-> ranks, funnel |-> funnel_rows(ranks) ]

compute_funnel(d) ==
    IF IsEmpty(d)
    THEN [ step_rank |-> << >>, funnel |-> << >> ]
    ELSE LET ranks == [ i \in 1..Len(d) |-> final_rank(d[i]) ]
         IN  [ step_rank |-> ranks, funnel |-> funnel_rows(ranks) ]

(***************************************************************************)
(* Drop-off and severity.                                                  *)
(***************************************************************************)
\* get_severity on a drop-off in tenths of a percent
get_severity(drop_pct) ==
    IF drop_pct < 100 THEN "good"
    ELSE IF drop_pct < 250 THEN "warn"
    ELSE IF drop_pct < 400 THEN "danger"
    ELSE "critical"

\* body of the loop of _render_full_funnel_waterfall, without the
\* prev_count > 0 test
waterfall_step_unguarded(prev, row) ==
    LET count == row.count
        has_prev == prev # NoPrev
        lost == IF has_prev THEN prev - count ELSE 0
        drop_pct == IF has_prev THEN Percent1(lost, prev) ELSE 0
    IN  [ step |-> row.step, label |-> row.label, count |-> count,
          pct |-> row.pct, drop_pct |-> drop_pct, lost |-> lost,
          severity |-> IF prev # NoPrev THEN get_severity(drop_pct) ELSE "good" ]

\* body of the loop of _render_full_funnel_waterfall
waterfall_step(prev, row) ==
    LET count == row.count
        has_prev == prev # NoPrev /\ prev > 0
        lost == IF has_prev THEN prev - count ELSE 0
        drop_pct == IF has_prev THEN Percent1(lost, prev) ELSE 0
    IN  [ step |-> row.step, label |-> row.label, count |-> count,
          pct |-> row.pct, drop_pct |-> drop_pct, lost |-> lost,
          severity |-> IF prev # NoPrev THEN get_severity(drop_pct) ELSE "good" ]

\* prev_count when the loop reaches row i
PrevOf(f, i) == IF i = 1 THEN NoPrev ELSE f[i - 1].count

waterfall_steps(f) == [ i \in 1..Len(f) |-> waterfall_step(PrevOf(f, i), f[i]) ]

\* funnel block of build_data_summary: one line per row; annotated is
\* whether the line carries a "(lost n, -d%)" drop-off annotation
summary_line(prev, row) ==
    LET has_prev == prev # NoPrev /\ prev > 0
        lost == IF has_prev THEN prev - row.count ELSE 0
    IN  [ label |-> row.label, count |-> row.count, annotated |-> has_prev,
          lost |-> lost,
          drop_pct |-> IF has_prev THEN Percent1(lost, prev) ELSE 0 ]

build_data_summary(d) ==
    LET total == Len(d)
        emails == IF ~IsEmpty(d)
                  THEN Cardinality({ i \in 1..Len(d) : d[i]["email"] # "" })
                  ELSE 0
        completed == IF ~IsEmpty(d)
                     THEN Cardinality({ i \in 1..Len(d) : d[i]["quiz_completed"] = TRUE })
                     ELSE 0
        f == compute_funnel(d).funnel
    IN  [ total |-> total,
          emails |-> emails,
          emails_pct |-> IF total # 0 THEN Percent1(emails, total) ELSE 0,
          completed |-> completed,
          completed_pct |-> IF total # 0 THEN Percent1(completed, total) ELSE 0,
          funnel_lines |-> [ i \in 1..Len(f) |-> summary_line(PrevOf(f, i), f[i]) ] ]

\* the loop of _find_biggest_dropoff with >= in place of >
RECURSIVE biggest_scan_last_tie(_, _, _)
biggest_scan_last_tie(f, i, acc) ==
    IF i > Len(f) THEN acc
    ELSE LET prev == PrevOf(f, i)
             count == f[i].count
             drop_pct == Percent1(prev - count, prev)
         IN  biggest_scan_last_tie(f, i + 1,
                 IF prev # NoPrev /\ prev > 0 /\ drop_pct >= acc.drop
                 THEN [ label |-> f[i].label, drop |-> drop_pct ]
                 ELSE acc)

\* _find_biggest_dropoff: the loop state after row i
RECURSIVE biggest_scan(_, _, _)
biggest_scan(f, i, acc) ==
    IF i > Len(f) THEN acc
    ELSE LET prev == PrevOf(f, i)
             count == f[i].count
             drop_pct == Percent1(prev - count, prev)
         IN  biggest_scan(f, i + 1,
                 IF prev # NoPrev /\ prev > 0 /\ drop_pct > acc.drop
                 THEN [ label |-> f[i].label, drop |-> drop_pct ]
                 ELSE acc)

find_biggest_dropoff(f) == biggest_scan(f, 1, [ label |-> "", drop |-> 0 ])

\* the severity icon of the report's hotspot callout, for a drop in tenths
\* of a percent
callout_severity(drop_pct) ==
    IF drop_pct > 400 THEN ":red_circle:"
    ELSE IF drop_pct > 250 THEN ":large_orange_circle:"
    ELSE ":large_yellow_circle:"

\* the hotspot as build_report_blocks reports it: the callout is made, with
\* its icon, when there is a label and the drop is positive
hotspot_callout(hot) ==
    [ label |-> hot.label, drop |-> hot.drop,
      severity |-> IF hot.label # "" /\ hot.drop > 0
                   THEN callout_severity(hot.drop) ELSE "" ]

(***************************************************************************)
(* Answer distribution.  A text value is a sequence of characters, each a  *)
(* one-character string; a character outside ASCII is written by its code *)
(* point ("U+2013").                                                       *)
(***************************************************************************)
\* None in a text column (dropped by dropna)
Null == << "<None>" >>

Digits == { "0", "1", "2", "3", "4", "5", "6", "7", "8", "9" }

LowerLetters ==
    << "a", "b", "c", "d", "e", "f", "g", "h", "i", "j", "k", "l", "m",
       "n", "o", "p", "q", "r", "s", "t", "u", "v", "w", "x", "y", "z" >>

UpperLetters ==
    << "A", "B", "C", "D", "E", "F", "G", "H", "I", "J", "K", "L", "M",
       "N", "O", "P", "Q", "R", "S", "T", "U", "V", "W", "X", "Y", "Z" >>

IsLower(c) == \E k \in 1..Len(LowerLetters) : LowerLetters[k] = c

IsUpper(c) == \E k \in 1..Len(UpperLetters) : UpperLetters[k] = c

IsLetter(c) == IsLower(c) \/ IsUpper(c)

ToUpper(c) ==
    IF IsLower(c)
    THEN UpperLetters[CHOOSE k \in 1..Len(LowerLetters) : LowerLetters[k] = c]
    ELSE c

ToLower(c) ==
    IF IsUpper(c)
    THEN LowerLetters[CHOOSE k \in 1..Len(UpperLetters) : UpperLetters[k] = c]
    ELSE c

Lowered(t) == [ k \in 1..Len(t) |-> ToLower(t[k]) ]

IsSpace(c) == c \in { " ", "\t", "\n" }

\* str.split(","): the parts between the commas, empty parts included
RECURSIVE split_comma(_, _, _)
split_comma(t, k, part) ==
    IF k > Len(t) THEN << part >>
    ELSE IF t[k] = "," THEN << part >> \o split_comma(t, k + 1, << >>)
    ELSE split_comma(t, k + 1, Append(part, t[k]))

\* str.strip()
RECURSIVE strip(_)
strip(t) ==
    IF Len(t) = 0 THEN t
    ELSE IF IsSpace(t[1]) THEN strip(Tail(t))
    ELSE IF IsSpace(t[Len(t)]) THEN strip(SubSeq(t, 1, Len(t) - 1))
    ELSE t

\* str.title() after replace("_", " ").replace("-", " ")
title_spaced(t) ==
    LET r == [ k \in 1..Len(t) |-> IF t[k] \in { "_", "-" } THEN " " ELSE t[k] ]
    IN  [ k \in 1..Len(r) |->
            IF k = 1 \/ ~IsLetter(r[k - 1]) THEN ToUpper(r[k]) ELSE ToLower(r[k]) ]

\* the separator literal of the age-range branch of _pretty, as the source
\* file spells it: the three characters U+00E2 U+20AC U+201C
RangeSeparator == << "U+00E2", "U+20AC", "U+201C" >>

pretty(value) ==
    IF /\ Len(value) = 5
       /\ value[1] \in Digits /\ value[2] \in Digits
       /\ value[3] = "_"
       /\ value[4] \in Digits /\ value[5] \in Digits
    THEN << value[1], value[2] >> \o RangeSeparator \o << value[4], value[5] >>
    ELSE IF /\ Len(value) = 7
            /\ value[1] \in Digits /\ value[2] \in Digits
            /\ value[3] = "_"
            /\ Lowered(SubSeq(value, 4, 7)) = << "p", "l", "u", "s" >>
    THEN << value[1], value[2], "+" >>
    ELSE IF /\ Len(value) = 8
            /\ Lowered(SubSeq(value, 1, 5)) = << "u", "n", "d", "e", "r" >>
            /\ value[6] = "_"
            /\ value[7] \in Digits /\ value[8] \in Digits
    THEN << "U", "n", "d", "e", "r", " ", value[7], value[8] >>
    ELSE title_spaced(value)

\* the items of one raw value, blank parts kept
RECURSIVE value_items_keep_blank(_, _)
value_items_keep_blank(parts, k) ==
    IF k > Len(parts) THEN << >>
    ELSE << pretty(strip(parts[k])) >> \o value_items_keep_blank(parts, k + 1)

\* the inner loop of compute_answer_distribution over the parts of one value
RECURSIVE value_items(_, _)
value_items(parts, k) ==
    IF k > Len(parts) THEN << >>
    ELSE LET part == strip(parts[k])
         IN  (IF Len(part) > 0 THEN << pretty(part) >> ELSE << >>)
                 \o value_items(parts, k + 1)

\* the outer loop: values are the non-null, non-empty entries of the column
RECURSIVE distribution_items(_, _)
distribution_items(col, i) ==
    IF i > Len(col) THEN << >>
    ELSE (IF col[i] # Null /\ Len(col[i]) > 0
          THEN value_items(split_comma(col[i], 1, << >>), 1)
          ELSE << >>)
             \o distribution_items(col, i + 1)

\* Counter(items).items(): distinct items in order of first occurrence
RECURSIVE counter_items(_, _)
counter_items(items, k) ==
    IF k > Len(items) THEN << >>
    ELSE (IF \E j \in 1..(k - 1) : items[j] = items[k]
          THEN << >>
          ELSE << [ answer |-> items[k],
                    count |-> Cardinality({ j \in 1..Len(items) : items[j] = items[k] }) ] >>)
             \o counter_items(items, k + 1)

\* sort_values("count", ascending=False); equal counts keep their order
RECURSIVE sort_by_count(_)
sort_by_count(entries) ==
    IF Len(entries) = 0 THEN << >>
    ELSE LET top == CHOOSE k \in 1..Len(entries) :
                      /\ \A j \in 1..Len(entries) : entries[j].count <= entries[k].count
                      /\ \A j \in 1..(k - 1) : entries[j].count < entries[k].count
         IN  << entries[top] >>
                 \o sort_by_count(SubSeq(entries, 1, top - 1)
                                     \o SubSeq(entries, top + 1, Len(entries)))

compute_answer_distribution(col) ==
    sort_by_count(counter_items(distribution_items(col, 1), 1))

\* raw values of an answer column
RawAnswers ==
    { Null,
      << >>,
      << " " >>,
      << "," >>,
      << "a" >>,
      << "a", ",", "b" >>,
      << "a", ",", " ", "b" >>,
      << "a", ",", ",", "b" >>,
      << " ", "b", " ", ",", "a" >>,
      << "5", "5", "_", "6", "4" >>,
      << "7", "0", "_", "P", "L", "U", "S" >>,
      << "u", "n", "d", "e", "r", "_", "4", "0" >>,
      << "h", "o", "t", "_", "f", "l", "a", "s", "h", ",", "h", "o", "t", "-", "f", "l", "a", "s", "h" >>,
      << "b" >> }

AnswerColumns == UNION { [ 1..n -> RawAnswers ] : n \in 0..MaxAnswers }

\* values of the variables a specification does not use
IdleDist == answers = << >> /\ dist = << >>

\* no summary text
NoAiSummary == [ mode |-> "none" ]

\* date inputs nobody looks at
NoDates == [ snap |-> << 0, 0 >>, a |-> << 0, 0 >>, b |-> << 0, 0 >> ]

IdleAi ==
    /\ windows = NoDates
    /\ df_a = << >>
    /\ df_b = << >>
    /\ ai_summary = NoAiSummary
    /\ ai_insights = ""

\* @st.cache_data(ttl=300) on the three fetch functions
TTL == 300

\* a result stored by st.cache_data: when it was stored, and the value
Stored(at, value) == [ at |-> at, value |-> value ]

NotStored == Stored(-1, << >>)

\* the cache after st.cache_data.clear(): nothing stored for the profile
\* fetch, for the order fetch and for any arguments of the pageview query
EmptyCache == [ profiles |-> NotStored, orders |-> NotStored, pageviews |-> {} ]

\* a stored result that is served whatever its age
hit_ignoring_ttl(e, now) == e.at >= 0

\* the call is answered from the cache: a result is stored and is younger
\* than the time-to-live
Hit(e, now) == e.at >= 0 /\ now - e.at < TTL

\* the entry of the pageview query for its arguments
pageviews_entry(pv, args) ==
    IF \E e \in pv : e.args = args
    THEN LET e == CHOOSE e \in pv : e.args = args IN Stored(e.at, << "data" >>)
    ELSE NotStored

\* the pageview results with the one for args stored now
pageviews_stored(pv, args, now) ==
    { e \in pv : e.args # args } \cup { [ args |-> args, at |-> now ] }

NoSources ==
    [ ga4_steps |-> "None", ga4_error |-> "None",
      shopify_orders |-> "None", shopify_metrics |-> NoneDict ]

IdleBuild ==
    /\ env = [ kind |-> "none" ]
    /\ upstream = << >>
    /\ shop = << >>
    /\ cache = EmptyCache
    /\ clock = 0
    /\ builds = 0
    /\ events = << >>
    /\ sources = NoSources
    /\ page = ""
    /\ blocks = << >>
    /\ delivery = "none"

NoTotals == [ yesterday |-> 0, week |-> 0 ]

NoTrend == [ average |-> 0, emoji |-> "" ]

IdleTrend == totals = NoTotals /\ trend = NoTrend

IdleOutsideFunnel == IdleDist /\ IdleTrend /\ IdleAi /\ IdleBuild

IdleFunnel ==
    /\ profiles = << >>
    /\ df = << >>
    /\ step_rank = << >>
    /\ funnel = << >>
    /\ steps_data = << >>
    /\ summary = [ total |-> 0, emails |-> 0, emails_pct |-> 0, completed |-> 0,
                   completed_pct |-> 0, funnel_lines |-> << >> ]
    /\ hotspot = [ label |-> "", drop |-> 0, severity |-> "" ]

IdleOutsideDist == IdleFunnel /\ IdleTrend /\ IdleAi /\ IdleBuild

(***************************************************************************)
(* Inputs: raw profiles as the profile source returns them.                *)
(***************************************************************************)
Absent == "<absent>"

Emails == { "", "ann@example.com" }
Markers == { Absent, "q3", "result-2", "welcome" }
AnswerSets == { {}, { "quiz_q5", "quiz_q12" } }

raw_properties(completed, marker, answered) ==
    [ k \in { "Quiz Completed" }
              \cup (IF marker = Absent THEN {} ELSE { "quiz_current_step" })
              \cup answered |->
        IF k = "Quiz Completed" THEN completed
        ELSE IF k = "quiz_current_step" THEN marker
        ELSE "hot_flashes" ]

raw_profile(email, completed, marker, answered) ==
    [ attributes |->
        [ email |-> email,
          properties |-> raw_properties(completed, marker, answered) ] ]

RawProfiles ==
    { raw_profile(e, c, m, a) :
        e \in Emails, c \in BOOLEAN, m \in Markers, a \in AnswerSets }
    \cup { [ attributes |-> [ email |-> "bea@example.com" ] ],
           [ id |-> "01HXYZ" ] }

ProfileLists == UNION { [ 1..n -> RawProfiles ] : n \in 0..MaxProfiles }

NoSummary ==
    [ total |-> 0, emails |-> 0, emails_pct |-> 0, completed |-> 0,
      completed_pct |-> 0, funnel_lines |-> << >> ]

NoHotspot == [ label |-> "", drop |-> 0, severity |-> "" ]

(***************************************************************************)
(* The report build: fetch, normalize, then one of the consumers.          *)
(***************************************************************************)
Init ==
    /\ profiles \in ProfileLists
    /\ df = << >>
    /\ pc = "fetched"
    /\ step_rank = << >>
    /\ funnel = << >>
    /\ steps_data = << >>
    /\ summary = NoSummary
    /\ hotspot = NoHotspot
    /\ IdleOutsideFunnel

\* profiles_to_dataframe(profiles); the call ends with the AttributeError of
\* the first profile whose attributes or properties are null
ProfilesToDataframe ==
    /\ pc = "fetched"
    /\ IF \E i \in 1..Len(profiles) : normalize_raises(profiles[i])
       THEN /\ pc' = "raised"
            /\ UNCHANGED df
       ELSE /\ df' = profiles_to_dataframe(profiles)
            /\ pc' = "normalized"
    /\ UNCHANGED <<profiles, step_rank, funnel, steps_data, summary, hotspot>>
    /\ UNCHANGED outside_funnel

\* a direct call of compute_funnel(df)
ComputeFunnel ==
    /\ pc = "normalized"
    /\ LET r == compute_funnel(df)
       IN  /\ step_rank' = r.step_rank
           /\ funnel' = r.funnel
    /\ pc' = "funnel"
    /\ UNCHANGED <<profiles, df, steps_data, summary, hotspot>>
    /\ UNCHANGED outside_funnel

\* _render_full_funnel_waterfall up to the end of the steps_data loop
RenderFullFunnelWaterfall ==
    /\ pc = "normalized"
    /\ LET r == compute_funnel(df)
       IN  /\ step_rank' = r.step_rank
           /\ funnel' = r.funnel
           /\ steps_data' = IF IsEmpty(r.funnel) THEN << >>
                            ELSE waterfall_steps(r.funnel)
    /\ pc' = "waterfall"
    /\ UNCHANGED <<profiles, df, summary, hotspot>>
    /\ UNCHANGED outside_funnel

\* build_data_summary(df): header counts and the funnel block
BuildDataSummary ==
    /\ pc = "normalized"
    /\ LET r == compute_funnel(df)
       IN  /\ step_rank' = r.step_rank
           /\ funnel' = r.funnel
    /\ summary' = build_data_summary(df)
    /\ pc' = "summary"
    /\ UNCHANGED <<profiles, df, steps_data, hotspot>>
    /\ UNCHANGED outside_funnel

\* build_report_blocks from the normalized records to the drop-off hotspot
ReportDropoff ==
    /\ pc = "normalized"
    /\ IF IsEmpty(df)
       THEN /\ pc' = "report_error"
            /\ UNCHANGED <<step_rank, funnel, hotspot>>
       ELSE LET r == compute_funnel(df)
            IN  /\ step_rank' = r.step_rank
                /\ funnel' = r.funnel
                /\ hotspot' = hotspot_callout(find_biggest_dropoff(r.funnel))
                /\ pc' = "hotspot"
    /\ UNCHANGED <<profiles, df, steps_data, summary>>
    /\ UNCHANGED outside_funnel

Next ==
    \/ ProfilesToDataframe
    \/ ComputeFunnel
    \/ RenderFullFunnelWaterfall
    \/ BuildDataSummary
    \/ ReportDropoff

Spec == Init /\ [][Next]_vars

\* the report build has run compute_funnel on df
FunnelComputed == pc \in { "funnel", "waterfall", "summary", "hotspot" }

(***************************************************************************)
(* The 100-record scenario: ScenarioMarked profiles at email-capture (the  *)
(* first nc of them completed), the others with no marker, no identity and *)
(* quiz_q1 answered.                                                       *)
(***************************************************************************)
ScenarioAnswerSets == { { "quiz_q1" }, { "quiz_q1", "quiz_q5" } }

scenario_profiles(nc, email, answered) ==
    [ i \in 1..ScenarioTotal |->
        IF i <= ScenarioMarked
        THEN raw_profile(email, i <= nc, "email-capture", {})
        ELSE raw_profile("", FALSE, Absent, answered) ]

InitScenario ==
    /\ profiles \in { scenario_profiles(nc, e, a) :
                        nc \in 0..ScenarioMarked, e \in Emails,
                        a \in ScenarioAnswerSets }
    /\ df = << >>
    /\ pc = "fetched"
    /\ step_rank = << >>
    /\ funnel = << >>
    /\ steps_data = << >>
    /\ summary = NoSummary
    /\ hotspot = NoHotspot
    /\ IdleOutsideFunnel

NextScenario ==
    \/ ProfilesToDataframe
    \/ ComputeFunnel

SpecScenario == InitScenario /\ [][NextScenario]_vars

(***************************************************************************)
(* Large record sets with one measured transition: n profiles at q1 or     *)
(* further, of which all but lost are at q2.                               *)
(***************************************************************************)
drop_profiles(n, lost) ==
    [ i \in 1..n |->
        raw_profile("", FALSE, IF i <= n - lost THEN "q2" ELSE "q1", {}) ]

InitDrop ==
    /\ profiles \in { drop_profiles(n, lost) :
                        n \in 0..MaxCount, lost \in 0..MaxLost }
    /\ df = << >>
    /\ pc = "fetched"
    /\ step_rank = << >>
    /\ funnel = << >>
    /\ steps_data = << >>
    /\ summary = NoSummary
    /\ hotspot = NoHotspot
    /\ IdleOutsideFunnel

NextDrop ==
    \/ ProfilesToDataframe
    \/ RenderFullFunnelWaterfall

SpecDrop == InitDrop /\ [][NextDrop]_vars

(***************************************************************************)
(* Vocabulary of the properties.                                           *)
(***************************************************************************)
Rows == 1..Len(df)

Completed(i) == df[i]["quiz_completed"] = TRUE

HasKnownMarker(i) == step_index_get(df[i]["current_step"], -1) >= 0

HasIdentity(i) == df[i]["email"] # ""

\* question steps, as positions in QUIZ_Q_KEYS, whose answer field is filled
AnsweredQuestions(i) ==
    { j \in 1..Len(QUIZ_Q_KEYS) : df[i][QUIZ_Q_KEYS[j]] # "" }

SetMax(S) == CHOOSE x \in S : \A y \in S : y <= x

\* furthest question step with a filled answer field (the j-th question
\* key belongs to the j-th question step), -1 when none is filled
AnswerDerivedRank(i) ==
    IF AnsweredQuestions(i) = {} THEN -1
    ELSE SetMax({ step_index_get(q_steps[j], -1) : j \in AnsweredQuestions(i) })

EmailCaptureRank == step_index_get("email-capture", -1)

\* severity of the exact drop-off (prev - count) / prev * 100, 0 when prev = 0
exact_severity(prev, count) ==
    LET lost == prev - count
    IN  IF prev = 0 \/ lost * 100 < 10 * prev THEN "good"
        ELSE IF lost * 100 < 25 * prev THEN "warn"
        ELSE IF lost * 100 < 40 * prev THEN "danger"
        ELSE "critical"

(***************************************************************************)
(* Properties.                                                             *)
(***************************************************************************)

\* C1: for a non-empty record set the step-reach counts of compute_funnel
\* never increase from one step of QUIZ_STEPS_ORDER to the next.
C1_ReachNonIncreasing ==
    (FunnelComputed /\ ~IsEmpty(df)) =>
        /\ Len(funnel) = Len(QUIZ_STEPS_ORDER)
        /\ \A k \in 1..(Len(funnel) - 1) : funnel[k + 1].count <= funnel[k].count

C1_Witness ==
    /\ FunnelComputed
    /\ \E k \in 1..(Len(funnel) - 1) :
          /\ funnel[k + 1].count < funnel[k].count
          /\ funnel[k + 1].count > 0

\* C2: a non-completed, identity-less record with no recognized marker gets
\* the rank of the furthest question step whose answer field is filled, and
\* is counted at exactly the steps up to that rank.
C2_AnswerDerivedRank ==
    FunnelComputed =>
        \A i \in Rows :
            (~HasKnownMarker(i) /\ ~Completed(i) /\ ~HasIdentity(i)) =>
                step_rank[i] = AnswerDerivedRank(i)

\* C3: a record whose completion flag is true gets the rank of the last
\* step whatever its marker, answers or identity, and is counted in the
\* reach of every step.
C3_CompletionOverride ==
    FunnelComputed =>
        /\ \A i \in Rows : Completed(i) => step_rank[i] = last_rank
        /\ \A k \in 1..Len(funnel) :
              funnel[k].count >= Cardinality({ i \in Rows : Completed(i) })

C3_Witness ==
    /\ FunnelComputed
    /\ \E i \in Rows :
          /\ Completed(i)
          /\ df[i]["current_step"] = "q3"
          /\ step_rank[i] = last_rank
          /\ funnel[Len(funnel)].count >= 1

\* C4: a non-completed record with no recognized marker, a non-empty
\* identity and an answer-derived rank below the email-capture rank gets
\* exactly the email-capture rank.
C4_IdentityCorrection ==
    FunnelComputed =>
        \A i \in Rows :
            ( /\ ~Completed(i)
              /\ ~HasKnownMarker(i)
              /\ HasIdentity(i)
              /\ AnswerDerivedRank(i) >= 0
              /\ AnswerDerivedRank(i) < EmailCaptureRank ) =>
                step_rank[i] = EmailCaptureRank

\* C5: in the 100-record scenario compute_funnel reports reach 100 at q1,
\* reach 40 at email-capture, and after email-capture the number of marked
\* records that are also completed.
C5_ScenarioReach ==
    pc = "funnel" =>
        LET ec == EmailCaptureRank + 1
            markedCompleted ==
                Cardinality({ i \in Rows :
                    df[i]["current_step"] = "email-capture" /\ Completed(i) })
        IN  /\ funnel[1].count = ScenarioTotal
            /\ funnel[ec].count = ScenarioMarked
            /\ \A k \in (ec + 1)..Len(funnel) : funnel[k].count = markedCompleted

C7_ExplicitMarker ==
    FunnelComputed =>
        \A i \in Rows :
            (~Completed(i) /\ HasKnownMarker(i)) =>
                step_rank[i] = step_index_get(df[i]["current_step"], -1)

C7_Witness ==
    /\ FunnelComputed
    /\ \E i \in Rows :
          /\ ~Completed(i)
          /\ df[i]["current_step"] = "q3"
          /\ HasIdentity(i)
          /\ df[i]["quiz_q12"] # ""
          /\ step_rank[i] = 2

\* C8: a record is unranked only when it has no recognized marker, is not
\* completed and has no answer field filled; a record with a filled answer
\* field is counted at least at q1.
C8_UnrankedOnlyWithoutSignals ==
    FunnelComputed =>
        \A i \in Rows :
            /\ step_rank[i] < 0 =>
                  ( /\ ~HasKnownMarker(i)
                    /\ ~Completed(i)
                    /\ AnsweredQuestions(i) = {} )
            /\ AnsweredQuestions(i) # {} =>
                  (step_rank[i] >= 0 /\ funnel[1].count >= 1)

\* C9: in the waterfall, the text summary and the biggest-drop-off search a
\* transition whose predecessor count is 0 yields drop-off 0 or no
\* annotation, and no division by zero happens.
C9_ZeroPredecessorSafe ==
    /\ pc = "waterfall" =>
          \A i \in 1..Len(steps_data) :
              /\ steps_data[i].drop_pct # ZeroDivision
              /\ (i > 1 /\ funnel[i - 1].count = 0) =>
                    (steps_data[i].drop_pct = 0 /\ steps_data[i].lost = 0)
    /\ pc = "summary" =>
          \A i \in 1..Len(summary.funnel_lines) :
              /\ summary.funnel_lines[i].drop_pct # ZeroDivision
              /\ (i > 1 /\ funnel[i - 1].count = 0) =>
                    ~summary.funnel_lines[i].annotated
    /\ pc = "hotspot" =>
          /\ hotspot.drop # ZeroDivision
          /\ \A i \in 2..Len(funnel) :
                funnel[i - 1].count = 0 => hotspot.label # funnel[i].label

C9_Witness ==
    /\ pc = "waterfall"
    /\ \E i \in 2..Len(steps_data) :
          /\ funnel[1].count > 0
          /\ funnel[i - 1].count = 0
          /\ steps_data[i].drop_pct = 0

\* C10: every waterfall transition carries the severity of its exact
\* drop-off d = (previous - current) / previous * 100 under the thresholds
\* d < 10 good, d < 25 warn, d < 40 danger, else critical; the first step
\* is good.
C10_SeverityOfExactDropoff ==
    pc = "waterfall" =>
        \A i \in 1..Len(steps_data) :
            steps_data[i].severity =
                IF i = 1 THEN "good"
                ELSE exact_severity(funnel[i - 1].count, funnel[i].count)

(***************************************************************************)
(* Record sets for the drop-off hotspot of the daily report: a profiles at *)
(* q3, b at result-2 and c completed ones.                                 *)
(***************************************************************************)
hotspot_profiles(a, b, c) ==
    [ i \in 1..(a + b + c) |->
        IF i <= a THEN raw_profile("", FALSE, "q3", {})
        ELSE IF i <= a + b THEN raw_profile("ann@example.com", FALSE, "result-2", {})
        ELSE raw_profile("ann@example.com", TRUE, Absent, {}) ]

InitHotspot ==
    /\ profiles \in { hotspot_profiles(a, b, c) :
                        a \in 0..MaxGroup, b \in 0..MaxGroup, c \in 0..MaxGroup }
    /\ df = << >>
    /\ pc = "fetched"
    /\ step_rank = << >>
    /\ funnel = << >>
    /\ steps_data = << >>
    /\ summary = NoSummary
    /\ hotspot = NoHotspot
    /\ IdleOutsideFunnel

NextHotspot ==
    \/ ProfilesToDataframe
    \/ ReportDropoff

SpecHotspot == InitHotspot /\ [][NextHotspot]_vars

\* transitions of a funnel whose predecessor count is positive
Transitions(f) == { i \in 2..Len(f) : f[i - 1].count > 0 }

\* drop-off percentage of transition i, as the report rounds it
DropOf(f, i) == Percent1(f[i - 1].count - f[i].count, f[i - 1].count)

MaxDropOf(f) == SetMax({ DropOf(f, i) : i \in Transitions(f) })

SetMin(S) == CHOOSE x \in S : \A y \in S : x <= y

FirstMaxTransition(f) ==
    SetMin({ i \in Transitions(f) : DropOf(f, i) = MaxDropOf(f) })

InitDist ==
    /\ answers \in AnswerColumns
    /\ dist = << >>
    /\ pc = "column"
    /\ IdleOutsideDist

ComputeAnswerDistribution ==
    /\ pc = "column"
    /\ dist' = compute_answer_distribution(answers)
    /\ pc' = "dist"
    /\ UNCHANGED answers
    /\ UNCHANGED outside_dist

NextDist == ComputeAnswerDistribution

SpecDist == InitDist /\ [][NextDist]_vars

\* characters that belong to a token: neither a comma nor white space
TokenChars(t) == { k \in 1..Len(t) : t[k] # "," /\ ~IsSpace(t[k]) }

\* number of non-empty trimmed comma-separated tokens of a raw value: the
\* token characters with no token character between them and the previous
\* comma (or the start of the value)
TokenCount(t) ==
    IF t = Null THEN 0
    ELSE Cardinality({ k \in TokenChars(t) :
            \A j \in TokenChars(t) :
                j < k => \E c \in (j + 1)..(k - 1) : t[c] = "," })

RECURSIVE SumTokenCounts(_, _)
SumTokenCounts(col, i) ==
    IF i > Len(col) THEN 0 ELSE TokenCount(col[i]) + SumTokenCounts(col, i + 1)

RECURSIVE SumCounts(_, _)
SumCounts(d, k) ==
    IF k > Len(d) THEN 0 ELSE d[k].count + SumCounts(d, k + 1)

\* C12: the counts of compute_answer_distribution add up to the number of
\* non-empty trimmed comma-separated tokens of all raw values; empty and
\* null raw values contribute nothing and there is no blank entry.
C12_DistributionTotality ==
    pc = "dist" =>
        /\ SumCounts(dist, 1) = SumTokenCounts(answers, 1)
        /\ \A k \in 1..Len(dist) : Len(dist[k].answer) > 0 /\ dist[k].count > 0
        /\ (\A i \in 1..Len(answers) : answers[i] = Null \/ Len(answers[i]) = 0)
              => Len(dist) = 0

C12_Witness ==
    /\ pc = "dist"
    /\ Len(answers) = 2
    /\ answers[1] = << "a", ",", ",", "b" >>
    /\ answers[2] = Null
    /\ SumCounts(dist, 1) = 2

EnDash == "U+2013"

IsAgeRange(t) ==
    /\ Len(t) = 5
    /\ t[1] \in Digits /\ t[2] \in Digits /\ t[3] = "_"
    /\ t[4] \in Digits /\ t[5] \in Digits

created_all_null(d) == \A i \in 1..Len(d) : d[i]["created"] = NaT

\* one element of the mask: a comparison with a null date is False
in_mask(row, start, end) ==
    /\ row["created"] # NaT
    /\ utc_date(row["created"]) >= start
    /\ utc_date(row["created"]) <= end

\* df.loc[mask]
loc_mask(d, start, end) == SelectSeq(d, LAMBDA row : in_mask(row, start, end))

\* app._filter_by_dates
filter_by_dates(d, start, end) ==
    IF IsEmpty(d) \/ created_all_null(d) THEN d ELSE loc_mask(d, start, end)

\* slack_report.filter_by_date
filter_by_date(d, start, end) ==
    IF IsEmpty(d) \/ created_all_null(d) THEN << >> ELSE loc_mask(d, start, end)

\* build_comparison_summary: the two period blocks with the record counts of
\* their labels; ga4_a and ga4_b tell whether a pageview block is included
build_comparison_summary(d, start_a, end_a, start_b, end_b, ga4_a, ga4_b, shopify_metrics_a, shopify_metrics_b) ==
    LET d_a == filter_by_dates(d, start_a, end_a)
        d_b == filter_by_dates(d, start_b, end_b)
    IN  [ mode |-> "comparison",
          len_a |-> Len(d_a),
          len_b |-> Len(d_b),
          a |-> build_data_summary(d_a),
          b |-> build_data_summary(d_b),
          ga4_a |-> ga4_a,
          ga4_b |-> ga4_b,
          shopify_a |-> shopify_metrics_a,
          shopify_b |-> shopify_metrics_b ]

\* the summary of the snapshot and ask buttons: one block
snapshot_summary(d, ga4, shopify_metrics) ==
    [ mode |-> "snapshot", len_a |-> Len(d), a |-> build_data_summary(d),
      ga4_a |-> ga4, shopify_a |-> shopify_metrics ]

(***************************************************************************)
(* Inputs: profiles with creation timestamps, date windows.                *)
(***************************************************************************)
\* a noon timestamp in UTC for every day, one late evening west of UTC (its
\* UTC date is the next day) and one early morning east of UTC (its UTC date
\* is the day before), and a profile without timestamp
Stamps ==
    { Stamp(d, 12, 0) : d \in 1..MaxDay }
        \cup { Stamp(1, 23, -5), Stamp(MaxDay, 1, 2), NoStamp }

dated_profile(completed, created) ==
    IF created.valid
    THEN [ attributes |->
             [ email |-> "ann@example.com", created |-> created,
               properties |-> raw_properties(completed, "q3", {}) ] ]
    ELSE [ attributes |->
             [ email |-> "ann@example.com",
               properties |-> raw_properties(completed, "q3", {}) ] ]

DatedProfiles == { dated_profile(c, t) : c \in BOOLEAN, t \in Stamps }

DatedProfileLists == UNION { [ 1..n -> DatedProfiles ] : n \in 0..MaxProfiles }

Days == 1..MaxDay

\* a date input pair; the widgets accept an end before the start
Windows == Days \X Days

(***************************************************************************)
(* The log of what a build does.                                           *)
(***************************************************************************)
Event(type, name, arg, ok) ==
    [ type |-> type, name |-> name, arg |-> arg, ok |-> ok, exc |-> "",
      body |-> "" ]

\* one network request to a provider; arg tells the query apart
Request(provider, arg, ok) == Event("request", provider, arg, ok)

\* a request that raised the exception exc
Raised(provider, arg, exc) ==
    [ Request(provider, arg, FALSE) EXCEPT !.exc = exc ]

\* st.error / st.warning
ErrorShown(msg) == Event("error", msg, << >>, FALSE)

WarningShown(msg) == Event("warning", msg, << >>, FALSE)

\* a computation or rendering call
Call(name) == Event("call", name, << >>, TRUE)

(***************************************************************************)
(* Network fetches.                                                        *)
(***************************************************************************)
\* exceptions a request can end with: raise_for_status (HTTPError), the
\* transport (ConnectionError, ConnectTimeout, ReadTimeout), resp.json()
FetchKinds ==
    { "HTTPError", "ConnectionError", "ConnectTimeout", "ReadTimeout",
      "JSONDecodeError" }

\* the classes of the requests library: ConnectTimeout derives from both
\* ConnectionError and Timeout, ReadTimeout from Timeout only
IsConnectionError(kind) == kind \in { "ConnectionError", "ConnectTimeout" }

IsTimeout(kind) == kind \in { "ConnectTimeout", "ReadTimeout" }

\* how one paginated fetch goes: served from st.cache_data without a
\* request, or npages requests of which request fail_page (0: none) raises
FetchOutcomes(kinds) ==
    { [ cached |-> TRUE, npages |-> 1, fail_page |-> 0, kind |-> "" ] }
        \cup { [ cached |-> FALSE, npages |-> n, fail_page |-> 0, kind |-> "" ] :
                 n \in 1..MaxPages }
        \cup { [ cached |-> FALSE, npages |-> n, fail_page |-> k, kind |-> x ] :
                 n \in 1..MaxPages, k \in 1..MaxPages, x \in kinds }

WellFormed(o) == o.fail_page <= o.npages

\* the part of the provider's list that page k of npages carries
page_data(up, npages, k) ==
    IF k < npages
    THEN (IF k <= Len(up) THEN << up[k] >> ELSE << >>)
    ELSE (IF npages <= Len(up) THEN SubSeq(up, npages, Len(up)) ELSE << >>)

\* the while loop with a raising request sent a second time before giving up
RECURSIVE fetch_loop_retry(_, _, _, _, _, _)
fetch_loop_retry(provider, up, o, k, acc, reqs) ==
    IF k > o.npages
    THEN [ raised |-> "", value |-> acc, requests |-> reqs ]
    ELSE IF k = o.fail_page
    THEN [ raised |-> o.kind, value |-> << >>,
           requests |-> reqs \o << Raised(provider, << k >>, o.kind),
                                    Raised(provider, << k >>, o.kind) >> ]
    ELSE fetch_loop_retry(provider, up, o, k + 1,
                          acc \o page_data(up, o.npages, k),
                          Append(reqs, Request(provider, << k >>, TRUE)))

\* the while loop of a paginated fetch, from page k on: a raising request
\* ends the call and nothing is returned
RECURSIVE fetch_loop(_, _, _, _, _, _)
fetch_loop(provider, up, o, k, acc, reqs) ==
    IF k > o.npages
    THEN [ raised |-> "", value |-> acc, requests |-> reqs ]
    ELSE IF k = o.fail_page
    THEN [ raised |-> o.kind, value |-> << >>,
           requests |-> Append(reqs, Raised(provider, << k >>, o.kind)) ]
    ELSE fetch_loop(provider, up, o, k + 1,
                    acc \o page_data(up, o.npages, k),
                    Append(reqs, Request(provider, << k >>, TRUE)))

\* the quiz_source filter applied when no list id is configured
from_quiz(p) ==
    Get(Get(Get(p, "attributes", EmptyDict), "properties", EmptyDict),
        "quiz_source", NoneStr) = "menoqueen_quiz"

\* fetch_quiz_profiles (app.py) and fetch_profiles (slack_report.py)
fetch_quiz_profiles(up, list_id, o, stored) ==
    IF o.cached
    THEN [ raised |-> "", value |-> stored.value, requests |-> << >> ]
    ELSE LET r == fetch_loop("profiles", up, o, 1, << >>, << >>)
         IN  IF r.raised # "" \/ list_id THEN r
             ELSE [ r EXCEPT !.value = SelectSeq(r.value, from_quiz) ]

\* fetch_shopify_orders
fetch_shopify_orders(up, o, stored) ==
    IF o.cached
    THEN [ raised |-> "", value |-> stored.value, requests |-> << >> ]
    ELSE fetch_loop("orders", up, o, 1, << >>, << >>)

\* an order: the UTC day of created_at, total_price in whole dollars, and
\* whether a line item carries a selling plan
Order(day, price, plan) ==
    [ created_at |-> day, total_price |-> price, selling_plan |-> plan ]

RECURSIVE sum_total_price(_)
sum_total_price(orders) ==
    IF orders = << >> THEN 0
    ELSE Head(orders).total_price + sum_total_price(Tail(orders))

is_sub(o) == o.selling_plan

\* compute_shopify_metrics over the orders it is given; the coupon counts
\* are left out
compute_shopify_metrics(orders) ==
    [ total_orders |-> Len(orders),
      revenue |-> sum_total_price(orders),
      subscription |-> Len(SelectSeq(orders, is_sub)),
      onetime |-> Len(orders) - Len(SelectSeq(orders, is_sub)),
      sub_pct |-> IF Len(orders) # 0
                  THEN Percent1(Len(SelectSeq(orders, is_sub)), Len(orders))
                  ELSE 0 ]

(***************************************************************************)
(* One dashboard build: a run of main().                                   *)
(***************************************************************************)
\* main: the key check, the mandatory profile fetch and its except clauses,
\* which are tried in the order HTTPError, ConnectionError, Timeout
MainFetch ==
    /\ pc = "start"
    /\ env.kind = "dashboard"
    /\ IF ~env.klaviyo_key
       THEN /\ events' = Append(events, ErrorShown("KLAVIYO_API_KEY is not set"))
            /\ pc' = "stopped"
            /\ UNCHANGED <<profiles, cache>>
       ELSE \E o \in FetchOutcomes(FetchKinds) :
              /\ WellFormed(o)
              /\ o.cached <=> Hit(cache.profiles, clock)
              /\ LET r == fetch_quiz_profiles(upstream, env.list_id, o,
                                              cache.profiles)
                 IN  IF r.raised = ""
                     THEN /\ profiles' = r.value
                          /\ cache' = IF o.cached THEN cache
                                      ELSE [ cache EXCEPT
                                               !.profiles = Stored(clock, r.value) ]
                          /\ events' = events \o r.requests
                          /\ pc' = "fetched"
                     ELSE /\ UNCHANGED <<profiles, cache>>
                          /\ IF r.raised = "HTTPError"
                             THEN /\ events' = events \o r.requests
                                       \o << ErrorShown("Klaviyo API error") >>
                                  /\ pc' = "stopped"
                             ELSE IF IsConnectionError(r.raised)
                             THEN /\ events' = events \o r.requests
                                       \o << ErrorShown("Could not connect to Klaviyo API") >>
                                  /\ pc' = "stopped"
                             ELSE IF IsTimeout(r.raised)
                             THEN /\ events' = events \o r.requests
                                       \o << ErrorShown("Klaviyo API request timed out") >>
                                  /\ pc' = "stopped"
                             ELSE /\ events' = events \o r.requests
                                       \o << Event("exception", r.raised, << >>, FALSE) >>
                                  /\ pc' = "crashed"
    /\ UNCHANGED <<df, step_rank, funnel, steps_data, summary, hotspot>>
    /\ UNCHANGED <<aside_vars, ai_vars>>
    /\ UNCHANGED <<clock, builds, env, upstream, shop, sources, page, blocks,
                   delivery>>

\* main: profiles_to_dataframe and the empty check
MainNormalize ==
    /\ pc = "fetched"
    /\ env.kind = "dashboard"
    /\ df' = profiles_to_dataframe(profiles)
    /\ IF IsEmpty(df')
       THEN /\ events' = events \o << Call("profiles_to_dataframe"),
                                      WarningShown("No quiz profiles found") >>
            /\ pc' = "stopped"
       ELSE /\ events' = Append(events, Call("profiles_to_dataframe"))
            /\ pc' = "sources"
    /\ UNCHANGED <<profiles, step_rank, funnel, steps_data, summary, hotspot>>
    /\ UNCHANGED <<aside_vars, ai_vars>>
    /\ UNCHANGED session_vars
    /\ UNCHANGED <<env, upstream, shop, sources, page, blocks, delivery>>

\* how an optional single-request query goes
QueryOutcomes == { "ok", "cached", "error" }

\* the pageview query of main: requests sent and the two variables it sets
main_ga4(available, g) ==
    IF ~available
    THEN [ requests |-> << >>, ga4_steps |-> "None", ga4_error |-> "None" ]
    ELSE IF g = "error"
    THEN [ requests |-> << Request("pageviews", << >>, FALSE) >>,
           ga4_steps |-> "None", ga4_error |-> "error" ]
    ELSE [ requests |-> IF g = "cached" THEN << >>
                        ELSE << Request("pageviews", << >>, TRUE) >>,
           ga4_steps |-> "data", ga4_error |-> "None" ]

\* the order fetch of main followed by compute_shopify_metrics, which may
\* raise as well (metrics_ok false); every exception is swallowed
main_shopify(available, orders, o, metrics_ok, stored, now) ==
    IF ~available
    THEN [ requests |-> << >>, shopify_orders |-> "None",
           shopify_metrics |-> NoneDict, stored |-> stored ]
    ELSE LET r == fetch_shopify_orders(orders, o, stored)
         IN  [ requests |-> r.requests,
               stored |-> IF r.raised = "" /\ ~o.cached
                          THEN Stored(now, r.value) ELSE stored,
               shopify_orders |-> IF r.raised = "" THEN "data" ELSE "None",
               shopify_metrics |-> IF r.raised = "" /\ metrics_ok
                                   THEN compute_shopify_metrics(r.value)
                                   ELSE NoneDict ]

\* main: the two optional sources
MainOptionalSources ==
    /\ pc = "sources"
    /\ \E g \in QueryOutcomes, o \in FetchOutcomes({ "HTTPError" }),
          metrics_ok \in BOOLEAN :
         /\ WellFormed(o)
         /\ IF env.ga4
            THEN g = "cached" <=> Hit(pageviews_entry(cache.pageviews, << >>), clock)
            ELSE g = "ok"
         /\ IF env.shopify
            THEN o.cached <=> Hit(cache.orders, clock)
            ELSE o.cached /\ metrics_ok
         /\ o.fail_page = 0 \/ metrics_ok
         /\ LET ga == main_ga4(env.ga4, g)
                sh == main_shopify(env.shopify, shop, o, metrics_ok,
                                   cache.orders, clock)
            IN  /\ events' = events \o ga.requests \o sh.requests
                /\ cache' =
                     [ cache EXCEPT
                         !.pageviews =
                            IF env.ga4 /\ g = "ok"
                            THEN pageviews_stored(@, << >>, clock) ELSE @,
                         !.orders = sh.stored ]
                /\ sources' = [ ga4_steps |-> ga.ga4_steps,
                                ga4_error |-> ga.ga4_error,
                                shopify_orders |-> sh.shopify_orders,
                                shopify_metrics |-> sh.shopify_metrics ]
    /\ pc' = "routing"
    /\ UNCHANGED <<funnel_vars, aside_vars, ai_vars>>
    /\ UNCHANGED <<clock, builds, env, upstream, shop, page, blocks, delivery>>

Pages == { "Dashboard", "Drop-off Report", "Quiz Responses", "Shopify Impact",
           "AI Analyst" }

\* main: page routing; the analyst page goes on with its buttons when the
\* language-model key is configured and returns at once when it is not
RenderPage ==
    /\ pc = "routing"
    /\ \E p \in Pages :
         /\ page' = p
         /\ events' = Append(events, Event("render", p, << >>, TRUE))
         /\ pc' = IF p = "AI Analyst" /\ env.anthropic_key THEN "ai_page"
                  ELSE "done"
    /\ UNCHANGED <<funnel_vars, aside_vars, ai_vars>>
    /\ UNCHANGED session_vars
    /\ UNCHANGED <<env, upstream, shop, sources, blocks, delivery>>

(***************************************************************************)
(* The analyst page: render_ai_page and _run_analysis.                     *)
(***************************************************************************)
\* how the language-model request of get_claude_insights goes: an answer
\* with text, an answer without content blocks, a body that is not the
\* expected JSON, an HTTP error status, a transport exception
LlmOutcomes ==
    { "ok", "empty", "malformed", "401", "429", "500", "Timeout",
      "ConnectionError" }

\* get_claude_insights: the request, and the text returned when none raises
get_claude_insights(o) ==
    [ request |-> IF o = "ok"
                  THEN [ Request("llm", << >>, TRUE) EXCEPT !.body = "## Analysis" ]
                  ELSE IF o = "empty" THEN Request("llm", << >>, TRUE)
                  ELSE Raised("llm", << >>, o),
      raised |-> o \notin { "ok", "empty" },
      text |-> IF o = "ok" THEN "## Analysis" ELSE "No response received." ]

\* the except branches of _run_analysis
analysis_error(o) ==
    CASE o = "401" -> ErrorShown("Invalid Anthropic API key")
      [] o = "429" -> ErrorShown("Rate limited by Anthropic API")
      [] o = "500" -> ErrorShown("Anthropic API error: 500")
      [] o = "Timeout" -> ErrorShown("Claude API request timed out")
      [] OTHER -> ErrorShown("Unexpected error")

\* _run_analysis with one message for every HTTP error status
run_analysis_status_only(o) ==
    LET got == get_claude_insights(o)
    IN  [ events |-> << got.request >>
                       \o (IF ~got.raised THEN << >>
                           ELSE IF o \in { "401", "429", "500" }
                           THEN << ErrorShown("Anthropic API error: 500") >>
                           ELSE << analysis_error(o) >>),
          stored |-> ~got.raised,
          insights |-> got.text ]

\* _run_analysis: one request; the answer is stored, an exception is shown
run_analysis(o) ==
    LET got == get_claude_insights(o)
    IN  [ events |-> << got.request >>
                       \o (IF got.raised THEN << analysis_error(o) >> ELSE << >>),
          stored |-> ~got.raised,
          insights |-> got.text ]

\* session_state["ai_insights"] after a run that overwrites it even when
\* the call raised
store_insights_always(run, old) == run.insights

\* session_state["ai_insights"] after _run_analysis: assigned only when the
\* call returned
store_insights(run, old) == IF run.stored THEN run.insights ELSE old

\* the end of render_ai_page: the stored answer is shown when there is one
shown_insights(text) ==
    IF text # "" THEN << Event("markdown", text, << >>, TRUE) >> ELSE << >>

\* the snapshot button
ClickSnapshot ==
    /\ pc = "ai_page"
    /\ \E o \in LlmOutcomes :
         LET filtered == filter_by_dates(df, windows.snap[1], windows.snap[2])
             run == run_analysis(o)
         IN  /\ df_a' = filtered
             /\ IF IsEmpty(filtered)
                THEN /\ o = "ok"
                     /\ events' = events
                          \o << WarningShown("No profiles in that date range") >>
                          \o shown_insights(ai_insights)
                     /\ UNCHANGED <<ai_summary, ai_insights>>
                ELSE /\ ai_summary' = snapshot_summary(filtered, sources.ga4_steps,
                                         sources.shopify_metrics)
                     /\ ai_insights' = store_insights(run, ai_insights)
                     /\ events' = events \o << Call("build_data_summary") >>
                                         \o run.events
                                         \o shown_insights(ai_insights')
    /\ pc' = "snapshot"
    /\ UNCHANGED <<windows, df_b>>
    /\ UNCHANGED <<funnel_vars, aside_vars>>
    /\ UNCHANGED session_vars
    /\ UNCHANGED <<env, upstream, shop, sources, page, blocks, delivery>>

\* the two pageview queries of the compare button, made in one try block:
\* g_a and g_b tell how each goes; the second is not made when the first
\* raises; pv is the cache of the query after the calls
compare_ga4(available, w_a, w_b, g_a, g_b, pv, now) ==
    IF ~available
    THEN [ requests |-> << >>, ga4_a |-> "None", ga4_b |-> "None", pv |-> pv ]
    ELSE IF g_a = "error"
    THEN [ requests |-> << Request("pageviews", w_a, FALSE) >>,
           ga4_a |-> "None", ga4_b |-> "None", pv |-> pv ]
    ELSE LET first == IF g_a = "cached" THEN << >>
                      ELSE << Request("pageviews", w_a, TRUE) >>
             pv_a == IF g_a = "cached" THEN pv
                     ELSE pageviews_stored(pv, w_a, now)
         IN  IF g_b = "cached"
             THEN [ requests |-> first, ga4_a |-> "data", ga4_b |-> "data",
                    pv |-> pv_a ]
             ELSE IF g_b = "error"
             THEN [ requests |-> first \o << Request("pageviews", w_b, FALSE) >>,
                    ga4_a |-> "data", ga4_b |-> "None", pv |-> pv_a ]
             ELSE [ requests |-> first \o << Request("pageviews", w_b, TRUE) >>,
                    ga4_a |-> "data", ga4_b |-> "data",
                    pv |-> pageviews_stored(pv_a, w_b, now) ]

\* the outcomes of the two queries that the stored results allow: a query
\* is answered from the cache exactly when its result is stored and fresh,
\* the second also when the first has just stored it
compare_ga4_possible(available, w_a, w_b, g_a, g_b, pv, now) ==
    IF ~available THEN g_a = "ok" /\ g_b = "ok"
    ELSE /\ g_a = "cached" <=> Hit(pageviews_entry(pv, w_a), now)
         /\ IF g_a = "error" THEN g_b = "ok"
            ELSE g_b = "cached" <=>
                   (w_b = w_a \/ Hit(pageviews_entry(pv, w_b), now))

\* the compare button
ClickCompare ==
    /\ pc = "ai_page"
    /\ \E o \in LlmOutcomes, g_a \in QueryOutcomes, g_b \in QueryOutcomes :
         LET w_a == windows.a
             w_b == windows.b
             d_a == filter_by_dates(df, w_a[1], w_a[2])
             d_b == filter_by_dates(df, w_b[1], w_b[2])
             ga == compare_ga4(env.ga4, w_a, w_b, g_a, g_b,
                               cache.pageviews, clock)
             run == run_analysis(o)
         IN  /\ df_a' = d_a
             /\ df_b' = d_b
             /\ IF IsEmpty(d_a) /\ IsEmpty(d_b)
                THEN /\ o = "ok" /\ g_a = "ok" /\ g_b = "ok"
                     /\ events' = events
                          \o << WarningShown("No profiles in either date range") >>
                          \o shown_insights(ai_insights)
                     /\ UNCHANGED <<ai_summary, ai_insights, cache>>
                ELSE /\ compare_ga4_possible(env.ga4, w_a, w_b, g_a, g_b,
                                             cache.pageviews, clock)
                     /\ cache' = [ cache EXCEPT !.pageviews = ga.pv ]
                     /\ ai_summary' =
                          build_comparison_summary(df, w_a[1], w_a[2],
                              w_b[1], w_b[2], ga.ga4_a, ga.ga4_b,
                              sources.shopify_metrics, sources.shopify_metrics)
                     /\ ai_insights' = store_insights(run, ai_insights)
                     /\ events' = events \o ga.requests
                                         \o << Call("build_comparison_summary") >>
                                         \o run.events
                                         \o shown_insights(ai_insights')
    /\ pc' = "compare"
    /\ UNCHANGED windows
    /\ UNCHANGED <<funnel_vars, aside_vars>>
    /\ UNCHANGED <<clock, builds, env, upstream, shop, sources, page, blocks,
                   delivery>>

\* the ask button
ClickAsk ==
    /\ pc = "ai_page"
    /\ \E blank \in BOOLEAN, o \in LlmOutcomes :
         LET run == run_analysis(o)
         IN  IF blank
             THEN /\ o = "ok"
                  /\ events' = events
                       \o << WarningShown("Please enter a question") >>
                       \o shown_insights(ai_insights)
                  /\ UNCHANGED <<ai_summary, ai_insights>>
             ELSE /\ ai_summary' = snapshot_summary(df, sources.ga4_steps,
                                      sources.shopify_metrics)
                  /\ ai_insights' = store_insights(run, ai_insights)
                  /\ events' = events \o << Call("build_data_summary") >>
                                      \o run.events
                                      \o shown_insights(ai_insights')
    /\ pc' = "ask"
    /\ UNCHANGED <<windows, df_a, df_b>>
    /\ UNCHANGED <<funnel_vars, aside_vars>>
    /\ UNCHANGED session_vars
    /\ UNCHANGED <<env, upstream, shop, sources, page, blocks, delivery>>

\* no button pressed: the page only shows the stored answer
ShowInsights ==
    /\ pc = "ai_page"
    /\ events' = events \o shown_insights(ai_insights)
    /\ pc' = "done"
    /\ UNCHANGED <<funnel_vars, aside_vars, ai_vars>>
    /\ UNCHANGED session_vars
    /\ UNCHANGED <<env, upstream, shop, sources, page, blocks, delivery>>

(***************************************************************************)
(* A session: the script runs again on every interaction, st.cache_data    *)
(* and st.session_state outlive the run.                                   *)
(***************************************************************************)
\* a script run has ended: st.stop, an uncaught exception, or the page is
\* rendered
Finished == pc \in { "stopped", "crashed", "done", "snapshot", "compare", "ask" }

\* seconds between the end of a run and the interaction that starts the
\* next: within the time-to-live, and beyond it
Elapsed == { 120, 301 }

\* the locals of main are gone when the script starts again; the cache, the
\* session state and the date inputs stay
RunAgain ==
    /\ pc' = "start"
    /\ builds' = builds + 1
    /\ profiles' = << >>
    /\ df' = << >>
    /\ events' = << >>
    /\ sources' = NoSources
    /\ page' = ""
    /\ df_a' = << >>
    /\ df_b' = << >>
    /\ ai_summary' = NoAiSummary
    /\ UNCHANGED <<step_rank, funnel, steps_data, summary, hotspot>>
    /\ UNCHANGED <<aside_vars, windows, ai_insights>>
    /\ UNCHANGED <<env, upstream, shop, blocks, delivery>>

\* an interaction other than the refresh button: the script runs again
Rerun ==
    /\ env.kind = "dashboard"
    /\ Finished
    /\ builds < MaxBuilds
    /\ \E d \in Elapsed : clock' = clock + d
    /\ UNCHANGED cache
    /\ RunAgain

\* the refresh button of render_sidebar, which main reaches after its key
\* check: st.cache_data.clear() and st.rerun()
Refresh ==
    /\ env.kind = "dashboard"
    /\ env.klaviyo_key
    /\ Finished
    /\ builds < MaxBuilds
    /\ \E d \in Elapsed : clock' = clock + d
    /\ cache' = EmptyCache
    /\ RunAgain

DashboardEnv(key, list_id, ga4, shopify, anthropic_key) ==
    [ kind |-> "dashboard", klaviyo_key |-> key, list_id |-> list_id,
      ga4 |-> ga4, shopify |-> shopify, anthropic_key |-> anthropic_key,
      webhook |-> FALSE ]

(***************************************************************************)
(* The analyst page over every small dated record set and every setting of *)
(* its date inputs: the profile fetch was answered from the cache, the     *)
(* optional sources are not configured.                                    *)
(***************************************************************************)
InitCompare ==
    /\ profiles \in DatedProfileLists
    /\ upstream = profiles
    /\ shop = << >>
    /\ cache = [ EmptyCache EXCEPT !.profiles = Stored(0, profiles) ]
    /\ clock = 0
    /\ builds = 1
    /\ pc = "fetched"
    /\ env = DashboardEnv(TRUE, TRUE, FALSE, FALSE, TRUE)
    /\ df = << >>
    /\ step_rank = << >>
    /\ funnel = << >>
    /\ steps_data = << >>
    /\ summary = NoSummary
    /\ hotspot = NoHotspot
    /\ events = << >>
    /\ sources = NoSources
    /\ page = ""
    /\ blocks = << >>
    /\ delivery = "none"
    /\ IdleDist
    /\ IdleTrend
    /\ windows \in { [ snap |-> w_a, a |-> w_a, b |-> w_b ] :
                       w_a \in Windows, w_b \in Windows }
    /\ df_a = << >>
    /\ df_b = << >>
    /\ ai_summary = NoAiSummary
    /\ ai_insights = ""

NextCompare ==
    \/ MainNormalize
    \/ MainOptionalSources
    \/ RenderPage
    \/ ClickSnapshot
    \/ ClickCompare
    \/ ClickAsk
    \/ ShowInsights

SpecCompare == InitCompare /\ [][NextCompare]_vars

\* a session on a fresh server, against a provider holding two profiles:
\* with both optional sources and no language-model key, or with the key
\* and no optional source
SessionEnvs ==
    { DashboardEnv(TRUE, TRUE, TRUE, TRUE, FALSE),
      DashboardEnv(TRUE, TRUE, FALSE, FALSE, TRUE) }

SessionWindows ==
    { [ snap |-> << 1, MaxDay >>, a |-> << 1, 1 >>, b |-> << MaxDay, MaxDay >> ],
      [ snap |-> << MaxDay, 1 >>, a |-> << MaxDay, 1 >>, b |-> << MaxDay, 1 >> ] }

InitSession ==
    /\ env \in SessionEnvs
    /\ upstream = << dated_profile(FALSE, Stamp(1, 12, 0)),
                     dated_profile(TRUE, Stamp(MaxDay, 12, 0)) >>
    /\ shop = << Order(1, 50, FALSE), Order(MaxDay, 30, TRUE) >>
    /\ windows \in SessionWindows
    /\ env.anthropic_key \/ windows.snap = << 1, MaxDay >>
    /\ cache = EmptyCache
    /\ clock = 0
    /\ builds = 1
    /\ pc = "start"
    /\ events = << >>
    /\ sources = NoSources
    /\ page = ""
    /\ blocks = << >>
    /\ delivery = "none"
    /\ IdleFunnel
    /\ IdleDist
    /\ IdleTrend
    /\ df_a = << >>
    /\ df_b = << >>
    /\ ai_summary = NoAiSummary
    /\ ai_insights = ""

NextSession ==
    \/ MainFetch
    \/ MainNormalize
    \/ MainOptionalSources
    \/ RenderPage
    \/ ClickSnapshot
    \/ ClickCompare
    \/ ClickAsk
    \/ ShowInsights
    \/ Rerun
    \/ Refresh

SpecSession == InitSession /\ [][NextSession]_vars

(***************************************************************************)
(* One scheduled report run: send_daily_report (slack_report.py).  A block *)
(* is written as its type and what it carries; its text is not modelled.   *)
(***************************************************************************)
\* _error_blocks followed by the funnel section of the full report
error_blocks_with_funnel ==
    << "header", "section:report-failed", "divider", "section:funnel" >>

\* _error_blocks
error_blocks == << "header", "section:report-failed" >>

\* the block list build_report_blocks assembles after its computations
report_blocks(show_hotspot, show_shopify) ==
    << "header", "context:dates", "divider", "section:funnel" >>
        \o (IF show_hotspot THEN << "divider", "section:hotspot" >> ELSE << >>)
        \o (IF show_shopify THEN << "divider", "section:shopify" >> ELSE << >>)
        \o << "divider", "context:footer" >>

\* the order section with its blocks appended before the fetch has returned
report_shopify_appending_first(available, orders, o, process_ok) ==
    IF ~available THEN [ requests |-> << >>, show |-> FALSE ]
    ELSE LET r == fetch_loop("orders", orders, o, 1, << >>, << >>)
         IN  [ requests |-> r.requests,
               show |-> r.raised # "" \/ (Len(r.value) > 0 /\ process_ok) ]

\* the order section of the report: the fetch (no request without the shop
\* configuration), then the figures (process_ok: no exception while they are
\* computed), then the two appends
report_shopify(available, orders, o, process_ok) ==
    IF ~available THEN [ requests |-> << >>, show |-> FALSE ]
    ELSE LET r == fetch_loop("orders", orders, o, 1, << >>, << >>)
         IN  [ requests |-> r.requests,
               show |-> r.raised = "" /\ Len(r.value) > 0 /\ process_ok ]

\* send_daily_report up to the profile fetch of build_report_blocks
ReportFetch ==
    /\ pc = "start"
    /\ env.kind = "report"
    /\ IF ~env.webhook
       THEN /\ delivery' = "False"
            /\ pc' = "done"
            /\ UNCHANGED <<profiles, events, blocks>>
       ELSE \E o \in FetchOutcomes(FetchKinds) :
              /\ WellFormed(o)
              /\ ~o.cached
              /\ LET r == fetch_quiz_profiles(upstream, env.list_id, o, NotStored)
                 IN  /\ events' = events \o r.requests
                     /\ IF r.raised = ""
                        THEN /\ profiles' = r.value
                             /\ pc' = "fetched"
                             /\ UNCHANGED blocks
                        ELSE /\ blocks' = error_blocks
                             /\ pc' = "built"
                             /\ UNCHANGED profiles
              /\ UNCHANGED delivery
    /\ UNCHANGED <<df, step_rank, funnel, steps_data, summary, hotspot>>
    /\ UNCHANGED <<aside_vars, ai_vars>>
    /\ UNCHANGED session_vars
    /\ UNCHANGED <<env, upstream, shop, sources, page>>

\* build_report_blocks from profiles_to_df to its return
ReportBuild ==
    /\ pc = "fetched"
    /\ env.kind = "report"
    /\ df' = profiles_to_dataframe(profiles)
    /\ IF IsEmpty(df')
       THEN /\ blocks' = error_blocks
            /\ UNCHANGED <<step_rank, funnel, hotspot, events>>
       ELSE \E o \in FetchOutcomes({ "HTTPError" }), process_ok \in BOOLEAN :
              LET r == compute_funnel(df')
                  hot == find_biggest_dropoff(r.funnel)
                  sh == report_shopify(env.shopify, shop, o, process_ok)
              IN  /\ WellFormed(o)
                  /\ ~o.cached
                  /\ env.shopify
                       \/ (o.npages = 1 /\ o.fail_page = 0 /\ process_ok)
                  /\ (o.fail_page = 0 /\ shop # << >>) \/ process_ok
                  /\ step_rank' = r.step_rank
                  /\ funnel' = r.funnel
                  /\ hotspot' = hotspot_callout(hot)
                  /\ events' = events \o << Call("compute_funnel") >>
                                      \o sh.requests
                  /\ blocks' = report_blocks(hot.label # "" /\ hot.drop > 0,
                                             sh.show)
    /\ pc' = "built"
    /\ UNCHANGED <<profiles, steps_data, summary>>
    /\ UNCHANGED <<aside_vars, ai_vars>>
    /\ UNCHANGED session_vars
    /\ UNCHANGED <<env, upstream, shop, sources, page, delivery>>

\* how the webhook request goes: requests.post raises, or it returns a
\* status code and a body
WebhookOutcomes ==
    { [ raised |-> r, status |-> c, text |-> t ] :
        r \in BOOLEAN, c \in { 200, 500 }, t \in { "ok", "invalid_payload" } }

\* the webhook request in the log, with the answer it got
Posted(w) ==
    IF w.raised THEN Raised("webhook", << >>, "ConnectionError")
    ELSE [ Request("webhook", << w.status >>, w.status = 200 /\ w.text = "ok")
             EXCEPT !.body = w.text ]

\* the return of send_daily_report with the status code alone deciding
send_result_status_only(w) ==
    IF w.raised THEN "raised"
    ELSE IF w.status = 200 THEN "True" ELSE "False"

\* the return of send_daily_report after the post; nothing is returned when
\* the post raises
send_result(w) ==
    IF w.raised THEN "raised"
    ELSE IF w.status = 200 /\ w.text = "ok" THEN "True" ELSE "False"

\* send_daily_report from the payload to its return
ReportSend ==
    /\ pc = "built"
    /\ \E w \in WebhookOutcomes :
         /\ w.raised => (w.status = 500 /\ w.text = "invalid_payload")
         /\ events' = Append(events, Posted(w))
         /\ delivery' = send_result(w)
    /\ pc' = "done"
    /\ UNCHANGED <<funnel_vars, aside_vars, ai_vars>>
    /\ UNCHANGED session_vars
    /\ UNCHANGED <<env, upstream, shop, sources, page, blocks>>

ReportEnv(list_id, shopify, webhook) ==
    [ kind |-> "report", klaviyo_key |-> TRUE, list_id |-> list_id,
      ga4 |-> FALSE, shopify |-> shopify, anthropic_key |-> FALSE,
      webhook |-> webhook ]

(***************************************************************************)
(* Builds from their start: a dashboard build or a scheduled report run,   *)
(* under each configuration, against a provider holding a few profiles.    *)
(***************************************************************************)
\* the profile with the quiz_source property the unlisted fetch keeps
sourced(p) ==
    [ p EXCEPT !["attributes"]["properties"] =
        [ k \in DOMAIN @ \cup { "quiz_source" } |->
            IF k = "quiz_source" THEN "menoqueen_quiz" ELSE @[k] ] ]

BuildUpstreams ==
    { << >>,
      << sourced(dated_profile(TRUE, Stamp(1, 12, 0))) >>,
      << dated_profile(FALSE, NoStamp),
         raw_profile("ann@example.com", TRUE, "result-2", {}) >>,
      << dated_profile(FALSE, Stamp(1, 12, 0)),
         sourced(dated_profile(TRUE, Stamp(MaxDay, 12, 0))) >> }

\* the shop holds no order, or one order on the first day and a
\* subscription order on the last; a run that does not read the shop, and
\* every dashboard build, is given the second
BuildShops ==
    { << >>, << Order(1, 50, FALSE), Order(MaxDay, 30, TRUE) >> }

BuildEnvs ==
    { DashboardEnv(TRUE, TRUE, g, s, TRUE) : g \in BOOLEAN, s \in BOOLEAN }
        \cup { DashboardEnv(FALSE, TRUE, FALSE, FALSE, TRUE),
               DashboardEnv(TRUE, FALSE, FALSE, FALSE, TRUE),
               DashboardEnv(TRUE, TRUE, TRUE, FALSE, FALSE) }
        \cup { ReportEnv(l, s, w) : l \in BOOLEAN, s \in BOOLEAN, w \in BOOLEAN }

\* date inputs: two different days, the same day twice, an end before the
\* start
BuildWindows ==
    { [ snap |-> << 1, MaxDay >>, a |-> << 1, 1 >>, b |-> << MaxDay, MaxDay >> ],
      [ snap |-> << 1, 1 >>, a |-> << 1, 1 >>, b |-> << 1, 1 >> ],
      [ snap |-> << MaxDay, 1 >>, a |-> << MaxDay, 1 >>, b |-> << MaxDay, 1 >> ] }

\* what st.cache_data holds when the build starts: nothing, the profiles
\* alone, or every result the build can ask for, all stored a moment ago by
\* an earlier build; the report process has no cache
BuildCaches(e, up, orders, w) ==
    IF e.kind = "report" THEN { EmptyCache }
    ELSE LET fetched == IF e.list_id THEN up ELSE SelectSeq(up, from_quiz)
         IN  { EmptyCache,
               [ EmptyCache EXCEPT !.profiles = Stored(0, fetched) ],
               [ profiles |-> Stored(0, fetched),
                 orders |-> Stored(0, orders),
                 pageviews |-> { [ args |-> a, at |-> 0 ] :
                                   a \in { << >>, w.a, w.b } } ] }

InitBuild ==
    /\ env \in BuildEnvs
    /\ upstream \in BuildUpstreams
    /\ shop \in BuildShops
    /\ shop = << >> => (env.kind = "report" /\ env.shopify)
    /\ clock = 0
    /\ builds = 1
    /\ pc = "start"
    /\ events = << >>
    /\ sources = NoSources
    /\ page = ""
    /\ blocks = << >>
    /\ delivery = "none"
    /\ IdleFunnel
    /\ IdleDist
    /\ IdleTrend
    /\ windows \in BuildWindows
    /\ cache \in BuildCaches(env, upstream, shop, windows)
    /\ df_a = << >>
    /\ df_b = << >>
    /\ ai_summary = NoAiSummary
    /\ ai_insights = ""

NextBuild ==
    \/ MainFetch
    \/ MainNormalize
    \/ MainOptionalSources
    \/ RenderPage
    \/ ClickSnapshot
    \/ ClickCompare
    \/ ClickAsk
    \/ ShowInsights
    \/ ReportFetch
    \/ ReportBuild
    \/ ReportSend

SpecBuild == InitBuild /\ [][NextBuild]_vars

\* the record belongs to the period: it has a creation timestamp and the
\* UTC date of that timestamp lies in [start, end]
InPeriod(row, start, end) ==
    /\ row["created"] # NaT
    /\ start <= row["created"] \div 24
    /\ row["created"] \div 24 <= end

\* the records of df inside the period, in the order of df
PeriodRecords(start, end) ==
    SelectSeq(df, LAMBDA row : InPeriod(row, start, end))

CompletedIn(d) == Cardinality({ i \in 1..Len(d) : d[i]["quiz_completed"] = TRUE })

\* a button of the analyst page has filtered df with the windows
SnapshotFiltered == pc = "snapshot"

CompareFiltered == pc = "compare"

RequestsTo(provider) ==
    { k \in 1..Len(events) :
        events[k].type = "request" /\ events[k].name = provider }

\* C14: the record set a period snapshot uses is exactly the records whose UTC
\* creation date lies in the window, both ends included; records without a
\* creation timestamp are never in it, also when no record has one.
C14_FilterIsWindow ==
    /\ SnapshotFiltered => df_a = PeriodRecords(windows.snap[1], windows.snap[2])
    /\ CompareFiltered =>
         /\ df_a = PeriodRecords(windows.a[1], windows.a[2])
         /\ df_b = PeriodRecords(windows.b[1], windows.b[2])
         /\ ai_summary # NoAiSummary =>
              /\ ai_summary.len_a = Len(PeriodRecords(windows.a[1], windows.a[2]))
              /\ ai_summary.len_b = Len(PeriodRecords(windows.b[1], windows.b[2]))

\* the header counts a period block must show for a record set
PeriodBlock(d) ==
    [ total |-> Len(d),
      completed |-> CompletedIn(d),
      completed_pct |-> IF Len(d) = 0 THEN 0
                        ELSE RoundHalfEven(CompletedIn(d) * 1000, Len(d)) ]

BlockCounts(b) ==
    [ total |-> b.total, completed |-> b.completed,
      completed_pct |-> b.completed_pct ]

\* C15: in the comparison summary the profile count, completion count and
\* completion rate of period A are those of the records inside window A, and
\* those of period B are those of the records inside window B, whatever
\* records lie outside the window.
C15_PeriodBlocksIndependent ==
    (CompareFiltered /\ ai_summary # NoAiSummary) =>
        /\ BlockCounts(ai_summary.a)
             = PeriodBlock(PeriodRecords(windows.a[1], windows.a[2]))
        /\ BlockCounts(ai_summary.b)
             = PeriodBlock(PeriodRecords(windows.b[1], windows.b[2]))

\* C16: in the compare flow, when both windows contain no record, no
\* comparison summary is built and no language-model request is sent.
C16_EmptyPeriodsShortCircuit ==
    ( /\ CompareFiltered
      /\ PeriodRecords(windows.a[1], windows.a[2]) = << >>
      /\ PeriodRecords(windows.b[1], windows.b[2]) = << >> ) =>
        /\ ai_summary = NoAiSummary
        /\ RequestsTo("llm") = {}

\* positions in the log of the requests to the profile source that raised
\* a timeout of either kind
ProfileTimeouts ==
    { k \in 1..Len(events) :
        /\ events[k].type = "request"
        /\ events[k].name = "profiles"
        /\ events[k].exc \in { "ConnectTimeout", "ReadTimeout" } }

\* nothing of a build after its profile fetch has happened
NothingAfterFetch ==
    /\ df = << >>
    /\ sources = NoSources
    /\ page = ""
    /\ funnel = << >>
    /\ dist = << >>
    /\ ai_summary = NoAiSummary

\* C17: in a dashboard build, when the profile fetch raises a timeout (connect
\* or read), the build shows exactly one error, the timeout error, and
\* stops: the failing request is followed by that message and nothing else,
\* and nothing is normalized, fetched, computed or rendered.
C17_TimeoutShowsTimeoutError ==
    \A k \in ProfileTimeouts :
        env.kind = "dashboard" =>
            /\ pc = "stopped"
            /\ Len(events) = k + 1
            /\ events[k + 1] = ErrorShown("Klaviyo API request timed out")
            /\ \A j \in 1..k : events[j].type = "request"
            /\ NothingAfterFetch

ReportRun == env.kind = "report" /\ env.webhook

FailedRequestsTo(provider) == { k \in RequestsTo(provider) : ~events[k].ok }

\* the profile fetch of the run raised, or it returned no profiles
ProfileFetchFailedOrEmpty ==
    \/ FailedRequestsTo("profiles") # {}
    \/ pc \in { "built", "done" } /\ profiles = << >>

\* C18 as stated: in a report run with a webhook, when the profile fetch
\* fails or returns no profiles, the short error notification (header and
\* one "Report failed" section) is delivered to the channel; the run never
\* ends with nothing delivered.
C18_ErrorNotificationDelivered ==
    (ReportRun /\ ProfileFetchFailedOrEmpty /\ pc = "done") =>
        /\ blocks = << "header", "section:report-failed" >>
        /\ delivery = "True"

\* C18 amended: in that case the block list the run builds and posts to the
\* webhook is the short error notification, and the run always gets to
\* posting it: it ends with exactly one webhook request, the last thing it
\* does.  Whether the channel receives it is up to that request: the run
\* returns True when the webhook answers 200 "ok", False on another answer,
\* and ends with the exception when the request raises.
C18_ErrorNotificationPosted ==
    (ReportRun /\ ProfileFetchFailedOrEmpty) =>
        /\ pc \in { "built", "done" }
        /\ blocks = << "header", "section:report-failed" >>
        /\ pc = "built" => RequestsTo("webhook") = {}
        /\ pc = "done" =>
             /\ RequestsTo("webhook") = { Len(events) }
             /\ delivery \in { "True", "False", "raised" }
             /\ delivery = "True" <=> events[Len(events)].ok

\* a run whose second profile page raised has posted the error notification
C18_Witness ==
    /\ ReportRun
    /\ pc = "done"
    /\ FailedRequestsTo("profiles") = { 2 }
    /\ blocks = error_blocks
    /\ delivery = "True"

\* the build has got past its optional sources
PastSources == pc \in { "routing", "ai_page", "snapshot", "compare", "ask", "done" }

\* the page routing of the build has rendered a page
Rendered ==
    /\ page \in Pages
    /\ \E k \in 1..Len(events) : events[k].type = "render" /\ events[k].name = page

\* the hotspot section belongs to the report
ShowsHotspot == hotspot.label # "" /\ hotspot.drop > 0

\* the full report without the order section
BlocksWithoutOrders ==
    << "header", "context:dates", "divider", "section:funnel" >>
        \o (IF ShowsHotspot THEN << "divider", "section:hotspot" >> ELSE << >>)
        \o << "divider", "context:footer" >>

\* C19: a fetch error from an optional source never aborts a build.  In a
\* dashboard build a failed pageview or order request leaves that source's
\* data absent and the build goes on to render its page (a failed pageview
\* query of the compare flow still gets the comparison summary built); in a
\* scheduled report a failed order request leaves exactly the blocks of the
\* report without the order section.
C19_OptionalSourceFailureNotFatal ==
    /\ ( /\ env.kind = "dashboard"
         /\ \E k \in FailedRequestsTo("pageviews") : events[k].arg = << >> ) =>
           /\ PastSources
           /\ sources.ga4_steps = "None"
           /\ pc # "routing" => Rendered
    /\ (env.kind = "dashboard" /\ FailedRequestsTo("orders") # {}) =>
           /\ PastSources
           /\ sources.shopify_orders = "None"
           /\ sources.shopify_metrics = NoneDict
           /\ pc # "routing" => Rendered
    /\ ( /\ env.kind = "dashboard"
         /\ \E k \in FailedRequestsTo("pageviews") : events[k].arg # << >> ) =>
           /\ pc = "compare"
           /\ ai_summary # NoAiSummary
           /\ ai_summary.ga4_b = "None"
           /\ RequestsTo("llm") # {}
    /\ (env.kind = "report" /\ FailedRequestsTo("orders") # {}) =>
           /\ pc \in { "built", "done" }
           /\ blocks = BlocksWithoutOrders

\* a report whose second order page raised: the hotspot section is there, the
\* order section is not, and the report was sent
C19_Witness ==
    /\ env.kind = "report"
    /\ pc = "done"
    /\ FailedRequestsTo("orders") # {}
    /\ \E k \in RequestsTo("orders") : events[k].ok
    /\ ShowsHotspot
    /\ blocks = BlocksWithoutOrders
    /\ delivery = "True"

\* pairs of a failed request and a later request to the same provider
LaterAfterFailed ==
    { ij \in (1..Len(events)) \X (1..Len(events)) :
        /\ ij[1] < ij[2]
        /\ events[ij[1]].type = "request"
        /\ events[ij[2]].type = "request"
        /\ events[ij[1]].name = events[ij[2]].name
        /\ events[ij[1]].name \in { "profiles", "orders", "pageviews", "llm" }
        /\ ~events[ij[1]].ok }

\* a profile fetch that failed has left no profile list behind
NoPartialProfiles ==
    FailedRequestsTo("profiles") # {} => (profiles = << >> /\ df = << >>)

\* C20 as stated: once a request to a provider (profiles, orders, pageviews,
\* language model) has failed, no further request goes to that provider in
\* the same build, and a failed profile fetch returns no partial list.
C20_NoRequestAfterFailure ==
    /\ LaterAfterFailed = {}
    /\ NoPartialProfiles

\* C20 amended: no failed request is sent again, and a failed profile fetch
\* returns no partial list.  After a failed profile, order or language-model
\* request no further request goes to that provider in the build.  After
\* the failed pageview query of main the only later pageview requests are
\* the queries of the compare button for its own date windows, and after a
\* failed query of the compare button no further pageview request is sent.
C20_NoRetry ==
    /\ \A ij \in LaterAfterFailed :
          /\ events[ij[1]].name = "pageviews"
          /\ events[ij[1]].arg = << >>
          /\ events[ij[2]].arg # << >>
          /\ pc = "compare"
    /\ NoPartialProfiles

\* the pageview query of main failed, and the compare button then sent its
\* first query, which failed too, and no second one
C20_Witness ==
    /\ pc = "compare"
    /\ \E i \in FailedRequestsTo("pageviews") : events[i].arg = << >>
    /\ \E j \in FailedRequestsTo("pageviews") : events[j].arg = windows.a
    /\ Cardinality(RequestsTo("pageviews")) = 2
    /\ FailedRequestsTo("llm") # {}

(***************************************************************************)
(* The normalizer over profiles with absent and null parts.                *)
(***************************************************************************)
NullableProfiles ==
    { [ id |-> "01HXYZ" ],
      [ attributes |-> NoneDict ],
      [ attributes |-> [ email |-> "bea@example.com" ] ],
      [ attributes |-> [ email |-> "bea@example.com", properties |-> NoneDict ] ],
      [ attributes |->
          [ email |-> NoneStr,
            properties |-> raw_properties(FALSE, Absent, {}) ] ],
      [ attributes |->
          [ email |-> "ann@example.com",
            properties |->
              [ k \in { "quiz_q5", "quiz_q12" } |->
                  IF k = "quiz_q5" THEN NoneStr ELSE "hot_flashes" ] ] ],
      raw_profile("ann@example.com", TRUE, "q3", { "quiz_q5" }) }

InitNormalize ==
    /\ profiles \in UNION { [ 1..n -> NullableProfiles ] : n \in 0..MaxProfiles }
    /\ df = << >>
    /\ pc = "fetched"
    /\ step_rank = << >>
    /\ funnel = << >>
    /\ steps_data = << >>
    /\ summary = NoSummary
    /\ hotspot = NoHotspot
    /\ IdleOutsideFunnel

NextNormalize == ProfilesToDataframe

SpecNormalize == InitNormalize /\ [][NextNormalize]_vars

\* the attributes and the properties of a raw profile, empty when they are
\* absent or null
RawAttrs(p) ==
    IF "attributes" \in DOMAIN p /\ p["attributes"] # NoneDict
    THEN p["attributes"] ELSE EmptyDict

RawProps(p) ==
    IF "properties" \in DOMAIN RawAttrs(p) /\ RawAttrs(p)["properties"] # NoneDict
    THEN RawAttrs(p)["properties"] ELSE EmptyDict

\* the text field is absent or null
NoText(d, k) == k \notin DOMAIN d \/ d[k] = NoneStr

\* C21: the normalizer never raises, whatever is absent or null in a raw
\* profile; a field that is absent or null comes out as its default (empty
\* text for the email, the marker and the answers, false for the completion
\* flag), and every record has one slot for each of the 11 question keys.
C21_NormalizerTotal ==
    /\ pc # "raised"
    /\ pc = "normalized" =>
         /\ Len(df) = Len(profiles)
         /\ \A i \in 1..Len(df) :
              /\ \A q \in 1..Len(QUIZ_Q_KEYS) : QUIZ_Q_KEYS[q] \in DOMAIN df[i]
              /\ Len(QUIZ_Q_KEYS) = 11
              /\ NoText(RawAttrs(profiles[i]), "email") => df[i]["email"] = ""
              /\ NoText(RawProps(profiles[i]), "quiz_current_step")
                   => df[i]["current_step"] = ""
              /\ \A q \in 1..Len(QUIZ_Q_KEYS) :
                   NoText(RawProps(profiles[i]), QUIZ_Q_KEYS[q])
                     => df[i][QUIZ_Q_KEYS[q]] = ""
              /\ "Quiz Completed" \notin DOMAIN RawProps(profiles[i])
                   => df[i]["quiz_completed"] = FALSE

(***************************************************************************)
(* The report's trend annotations.  An average is held in tenths, as the   *)
(* report rounds it to one decimal before it is compared.                  *)
(***************************************************************************)
\* round(week / 7, 1) if week else 0, in tenths
avg_daily(week) == IF week # 0 THEN RoundHalfEven(week * 10, 7) ELSE 0

\* _trend_emoji(current, average) with the average in tenths: pct is
\* (current - average) / average * 100; the text of the percentage is left out
trend_emoji(current, average) ==
    IF average = 0 THEN ""
    ELSE IF (current * 10 - average) * 100 > 5 * average
         THEN ":chart_with_upwards_trend:"
    ELSE IF (current * 10 - average) * 100 < (0 - 5) * average
         THEN ":chart_with_downwards_trend:"
    ELSE ":left_right_arrow: flat"

\* the yesterday value and the week total of one metric: the week ends
\* yesterday, so it holds yesterday's records
MetricTotals ==
    { [ yesterday |-> y, week |-> w ] : y \in 0..MaxWeek, w \in 0..MaxWeek }

InitTrend ==
    /\ totals \in { t \in MetricTotals : t.yesterday <= t.week }
    /\ trend = NoTrend
    /\ pc = "totals"
    /\ IdleFunnel
    /\ IdleDist
    /\ IdleAi
    /\ IdleBuild

ReportTrend ==
    /\ pc = "totals"
    /\ trend' = [ average |-> avg_daily(totals.week),
                  emoji |-> trend_emoji(totals.yesterday, avg_daily(totals.week)) ]
    /\ pc' = "annotated"
    /\ UNCHANGED <<totals, funnel_vars, dist_vars, ai_vars, build_vars>>

NextTrend == ReportTrend

SpecTrend == InitTrend /\ [][NextTrend]_vars

\* the deviation of yesterday's value from week / 7, in percent, is above
\* (below) the bound b: (y - w/7) / (w/7) * 100 > b, for w > 0
DeviationAbove(t, b) == (7 * t.yesterday - t.week) * 100 > b * t.week

DeviationBelow(t, b) == (7 * t.yesterday - t.week) * 100 < b * t.week

\* C22: a metric is annotated up exactly when its deviation from week / 7 is
\* above +5%, down exactly when it is below -5%, flat in between, and not at
\* all when the average is 0.
C22_TrendFollowsDeviation ==
    pc = "annotated" =>
        /\ totals.week = 0 => trend.emoji = ""
        /\ totals.week > 0 =>
             /\ trend.emoji = ":chart_with_upwards_trend:"
                  <=> DeviationAbove(totals, 5)
             /\ trend.emoji = ":chart_with_downwards_trend:"
                  <=> DeviationBelow(totals, 0 - 5)
             /\ trend.emoji = ":left_right_arrow: flat"
                  <=> (~DeviationAbove(totals, 5) /\ ~DeviationBelow(totals, 0 - 5))

(***************************************************************************)
(* The failures of the language-model call.                                *)
(***************************************************************************)
\* the error messages shown after event k of the build
ErrorsAfter(k) == { j \in (k + 1)..Len(events) : events[j].type = "error" }

\* C23: when the language-model call fails, exactly one error message is
\* shown; it is the key message exactly for HTTP 401, the rate-limit message
\* exactly for HTTP 429 and another message for every other failure; the
\* page run ends normally, no exception leaves _run_analysis.
C23_OneErrorPerFailure ==
    \A k \in RequestsTo("llm") :
        /\ pc \in { "snapshot", "compare", "ask" }
        /\ events[k].ok => ErrorsAfter(k) = {}
        /\ ~events[k].ok =>
             /\ ErrorsAfter(k) = { k + 1 }
             /\ events[k + 1].name = "Invalid Anthropic API key"
                  <=> events[k].exc = "401"
             /\ events[k + 1].name = "Rate limited by Anthropic API"
                  <=> events[k].exc = "429"

C23_Witness ==
    /\ pc = "compare"
    /\ \E k \in FailedRequestsTo("llm") :
         /\ events[k].exc = "429"
         /\ events[k + 1] = ErrorShown("Rate limited by Anthropic API")
         /\ Len(events) = k + 1

(***************************************************************************)
(* The return value of send_daily_report.                                  *)
(***************************************************************************)
\* the webhook request of the run was answered with status 200 and body "ok"
Acknowledged ==
    \E k \in RequestsTo("webhook") :
        /\ events[k].exc = ""
        /\ events[k].arg = << 200 >>
        /\ events[k].body = "ok"

\* C24: a finished run returned True exactly when the report was posted to
\* the webhook and answered with status 200 and body "ok"; without a webhook
\* URL it returned False and made no request at all.
C24_TrueIffAcknowledged ==
    (env.kind = "report" /\ pc = "done") =>
        /\ delivery = "True" <=> Acknowledged
        /\ ~env.webhook => (delivery = "False" /\ events = << >>)

\* a report was posted and answered 200 with another body: False is returned
C24_Witness ==
    /\ env.kind = "report"
    /\ pc = "done"
    /\ delivery = "False"
    /\ \E k \in RequestsTo("webhook") :
         events[k].arg = << 200 >> /\ events[k].body = "invalid_payload"

(***************************************************************************)
(* The severity icon of the report's hotspot callout.                      *)
(***************************************************************************)
\* C25: the icon of the hotspot callout agrees with the severity classifier
\* on the reported drop-off d: red exactly when d is critical (d >= 40),
\* orange exactly when d is danger (25 <= d < 40), the bounds 25 and 40
\* included.
C25_CalloutAgreesWithClassifier ==
    (pc = "hotspot" /\ hotspot.severity # "") =>
        /\ hotspot.severity = ":red_circle:"
             <=> get_severity(hotspot.drop) = "critical"
        /\ hotspot.severity = ":large_orange_circle:"
             <=> get_severity(hotspot.drop) = "danger"

(***************************************************************************)
(* The revenue snapshot of the compare flow.                               *)
(***************************************************************************)
\* the orders of the shop created in the window
OrdersIn(w) ==
    SelectSeq(shop, LAMBDA o : w[1] <= o.created_at /\ o.created_at <= w[2])

\* C26: in the compare flow with order data, the revenue snapshot of each
\* period's block is computed over the orders of that period's own window.
C26_RevenuePerPeriod ==
    ( /\ pc = "compare"
      /\ ai_summary.mode = "comparison"
      /\ sources.shopify_metrics # NoneDict ) =>
        /\ ai_summary.shopify_a = compute_shopify_metrics(OrdersIn(windows.a))
        /\ ai_summary.shopify_b = compute_shopify_metrics(OrdersIn(windows.b))

(***************************************************************************)
(* Records with an identity and nothing else.                              *)
(***************************************************************************)
\* rows not completed, with an identity, without recognized marker and
\* without a populated answer field
IdentityOnly ==
    { i \in Rows :
        /\ ~Completed(i)
        /\ HasIdentity(i)
        /\ ~HasKnownMarker(i)
        /\ \A q \in 1..Len(QUIZ_Q_KEYS) : ~Truthy(df[i][QUIZ_Q_KEYS[q]]) }

\* C28: a non-completed record with an identity, no recognized marker and no
\* populated answer field stays unranked: it is a row of the total and is
\* counted in no step's reach.
C28_IdentityAloneStaysUnranked ==
    FunnelComputed =>
        /\ \A i \in IdentityOnly : step_rank[i] = -1
        /\ Len(step_rank) = Len(df)
        /\ \A k \in 1..Len(funnel) :
             funnel[k].count + Cardinality(IdentityOnly) <= Len(df)

C28_Witness ==
    /\ FunnelComputed
    /\ IdentityOnly # {}
    /\ \E i \in Rows : step_rank[i] >= 0
    /\ funnel[1].count = Len(df) - Cardinality(IdentityOnly)

(***************************************************************************)
(* The two date filters side by side.                                      *)
(***************************************************************************)
\* C29: the records the dashboard's filter selected for the snapshot window
\* are the records the report's filter selects from the same record set for
\* the same window, also when every creation timestamp is null.
C29_FiltersAgree ==
    SnapshotFiltered =>
        df_a = filter_by_date(df, windows.snap[1], windows.snap[2])

(***************************************************************************)
(* The cached fetches across the runs of a session.                        *)
(***************************************************************************)
\* the requests to the provider made by the step
NewRequestsTo(provider) ==
    { k \in (Len(events) + 1)..Len(events') :
        events'[k].type = "request" /\ events'[k].name = provider }

\* a result is stored and its 300 seconds are not over
Fresh(e) == e.at >= 0 /\ clock - e.at < 300

\* the step calls the function: a fresh stored result is returned without a
\* request and stays stored; otherwise a request is made, the result of a
\* call that returned is stored with the present time, and a call that
\* raised stores nothing
CachedCall(provider, before, after, returned) ==
    IF Fresh(before)
    THEN NewRequestsTo(provider) = {} /\ returned /\ after = before
    ELSE /\ NewRequestsTo(provider) # {}
         /\ returned => (after.at = clock /\ Fresh(after))
         /\ ~returned => after = before

\* C27: in every run of a session, a fetch whose result is stored and
\* younger than 300 seconds is answered with the stored result and makes no
\* request; after the refresh button, which empties the cache, and after the
\* 300 seconds, the fetch makes a new request; a fetch that raised stores
\* nothing, so that the next run asks the provider again.
C27_CacheReuse ==
    [][ /\ (pc = "start" /\ pc' # "start" /\ env.klaviyo_key) =>
              /\ CachedCall("profiles", cache.profiles, cache'.profiles,
                            pc' = "fetched")
              /\ Fresh(cache.profiles) => profiles' = cache.profiles.value
        /\ (pc = "sources" /\ pc' = "routing" /\ env.shopify) =>
              CachedCall("orders", cache.orders, cache'.orders,
                         sources'.shopify_orders = "data")
        /\ (pc = "sources" /\ pc' = "routing" /\ env.ga4) =>
              CachedCall("pageviews",
                         pageviews_entry(cache.pageviews, << >>),
                         pageviews_entry(cache'.pageviews, << >>),
                         sources'.ga4_steps = "data")
        /\ (pc # "start" /\ pc' = "start") =>
              (cache' = cache \/ cache' = EmptyCache)
        /\ cache.profiles.at >= 0 => cache.profiles.value = upstream
        /\ cache.orders.at >= 0 => cache.orders.value = shop
      ]_vars

\* the second run, 120 seconds after the first: the profiles are the stored
\* ones, without a request, and the orders, whose fetch had raised, are
\* requested again
C27_Witness ==
    /\ builds = 2
    /\ clock = 120
    /\ pc = "routing"
    /\ cache.profiles.at = 0
    /\ profiles = cache.profiles.value
    /\ RequestsTo("profiles") = {}
    /\ RequestsTo("orders") # {}
    /\ cache.orders.at = 120

(***************************************************************************)
(* The stored answer across the analysis requests of a session.            *)
(***************************************************************************)
\* the events the step adds to the log of the run
NewEvents == SubSeq(events', Len(events) + 1, Len(events'))

\* the language-model requests of the step that were answered
Answered ==
    { k \in 1..Len(NewEvents) :
        /\ NewEvents[k].type = "request"
        /\ NewEvents[k].name = "llm"
        /\ NewEvents[k].ok }

\* the text of an answer: its first content block, or the fixed text when
\* it has none
AnswerText(e) == IF e.body = "" THEN "No response received." ELSE e.body

\* C30: after a run of the analyst page the stored answer is the text of
\* the request answered in that run, and the one stored before when no
\* request was answered: when the request failed, whose error is then shown
\* and followed by the earlier answer, and when the request was not made
\* because the window was empty or the question blank.  The page ends by
\* showing the stored answer whenever there is one.
C30_StoredIsLatestAnswer ==
    [][ pc = "ai_page" =>
          /\ Answered = {} => ai_insights' = ai_insights
          /\ \A k \in Answered : ai_insights' = AnswerText(NewEvents[k])
          /\ ai_insights' # "" =>
                NewEvents[Len(NewEvents)] =
                    Event("markdown", ai_insights', << >>, TRUE)
          /\ \A k \in 1..Len(NewEvents) :
                (NewEvents[k].name = "llm" /\ ~NewEvents[k].ok) =>
                    NewEvents[k + 1].type = "error"
      ]_vars

\* the second run of a session: the request failed, the error is followed by
\* the answer stored by the first run
C30_Witness ==
    /\ builds = 2
    /\ pc = "ask"
    /\ FailedRequestsTo("llm") # {}
    /\ ai_insights = "## Analysis"
    /\ Len(events) >= 2
    /\ events[Len(events) - 1].type = "error"
    /\ events[Len(events)] = Event("markdown", "## Analysis", << >>, TRUE)

====
